---- MODULE Spec2Model ----
(***************************************************************************)
(* Model of the train animation engine of dudewheresmytube:                *)
(*   - src/src/lib/trackGeometry.ts  (geometry index, findTrackPath,        *)
(*     interpolateAlongPath)                                                *)
(*   - src/unnamed/part_001          (the useTrainPositions hook, in its    *)
(*     track-path variant, lines 1-281, and its older variant, 283-465)     *)
(*   - src/unnamed/part_000          (station lookup)                       *)
(*                                                                          *)
(* Numbers.  The program computes on IEEE doubles; the model computes on    *)
(* integers in fixed point:                                                 *)
(*   coordinates   1 unit = 0.000001 degree                                 *)
(*   time          1 unit = 1 millisecond (Date.now())                      *)
(*   progress      1 unit = 1/10000 (0 .. 10000 stands for 0 .. 1)          *)
(*   velocity      coordinate units per second (track-path variant),        *)
(*                 1/1000 coordinate unit per second (older variant)        *)
(* Divisions round toward zero (Quot).  Distances are compared exactly, on  *)
(* their squares.                                                           *)
(***************************************************************************)
EXTENDS Integers, Sequences, FiniteSets, TLC

VARIABLES
  variant,        \* which version of the hook is mounted: "track" or "older"
  lineSegments,   \* trackGeometry.ts: Map<lineName, LineSegment[]>
  trainStates,    \* trainStates.current: Map<id, TrainState>
  positions,      \* React state `positions` (last setPositions(result))
  lastFrameTime,  \* module-level lastFrameTime (track-path variant)
  clock,          \* the last value Date.now() returned
  animationRef,   \* animationRef.current: handle of the last frame request, 0 = undefined
  rafPending,     \* frame callbacks the host has scheduled and not yet run or cancelled
  rafCount,       \* number of handles requestAnimationFrame has issued
  mounted,        \* the component using the hook is mounted
  lastOp,         \* the last operation performed, with its inputs and result
  deployment,     \* the /api/trains server: which handler runs, and its environment
  cache,          \* module-level `cache` of the handler: null or {data, timestamp}
  inflight,       \* requests suspended at `await Promise.all(...)`
  rounds,         \* Date.now() of every request that started the upstream fetches
  requests,       \* number of requests the server has received
  response        \* the last response sent (null: none yet)

vars == <<variant, lineSegments, trainStates, positions, lastFrameTime, clock,
          animationRef, rafPending, rafCount, mounted, lastOp,
          deployment, cache, inflight, rounds, requests, response>>

\* The state of the /api/trains server, and the state of the hook.
serverVars == <<deployment, cache, inflight, rounds, requests, response>>
hookVars == <<variant, lineSegments, trainStates, positions, lastFrameTime,
              animationRef, rafPending, rafCount, mounted>>

\* JavaScript null / undefined.
Null == <<>>

----------------------------------------------------------------------------
(* Arithmetic helpers *)

Abs(x) == IF x < 0 THEN -x ELSE x
Min(a, b) == IF a < b THEN a ELSE b
Max(a, b) == IF a > b THEN a ELSE b

\* Division rounding toward zero (the fixed-point image of a float division).
Quot(a, b) == IF a >= 0 THEN a \div b ELSE -((-a) \div b)

RECURSIVE SqrtSearch(_, _, _)
SqrtSearch(n, lo, hi) ==
  IF lo >= hi THEN lo
  ELSE LET mid == (lo + hi + 1) \div 2
       IN IF mid * mid <= n THEN SqrtSearch(n, mid, hi)
          ELSE SqrtSearch(n, lo, mid - 1)

\* Math.sqrt on a non-negative integer, rounded down.
ISqrt(n) == SqrtSearch(n, 0, Min(n, 46340))

\* Squared Euclidean distance between two points.
Dist2(a, b) == (a[1] - b[1]) * (a[1] - b[1]) + (a[2] - b[2]) * (a[2] - b[2])

\* distance(a, b), in coordinate units, rounded down.
distance(a, b) == ISqrt(Dist2(a, b))

\* sqrt(a) + sqrt(b) < sqrt(c) + sqrt(d), decided exactly on the integers
\* a, b, c, d >= 0 (both sides squared twice).
SumSqrtLess(a, b, c, d) ==
  LET A == a + b - c - d
      B == 4 * a * b
      C == 4 * c * d
  IN IF A >= 0
     THEN LET M == C - A * A - B
          IN M > 0 /\ 4 * A * A * B < M * M
     ELSE LET N == B - C - A * A
          IN N < 0 \/ N * N < 4 * A * A * C

----------------------------------------------------------------------------
(* trackGeometry.ts *)

\* A score is the pair of squared distances <<fromDist^2, toDist^2>>; the
\* program's score is fromDist + toDist.
ScoreLess(s, t) == SumSqrtLess(s[1], s[2], t[1], t[2])

RECURSIVE NearestScan(_, _, _, _, _)
\* The inner loop of findTrackPath for one of the two points: indices are
\* 1-based, bestIdx = 0 stands for the initial -1 with distance Infinity.
NearestScan(coords, p, i, bestIdx, bestD2) ==
  IF i > Len(coords) THEN <<bestIdx, bestD2>>
  ELSE LET d2 == Dist2(coords[i], p)
       IN IF bestIdx = 0 \/ d2 < bestD2
          THEN NearestScan(coords, p, i + 1, i, d2)
          ELSE NearestScan(coords, p, i + 1, bestIdx, bestD2)

\* <<index, squared distance>> of the vertex of coords nearest to p
\* (the first one among equally near vertices).
Nearest(coords, p) == NearestScan(coords, p, 1, 0, 0)

RECURSIVE BestScanAnyIndices(_, _, _, _, _)
\* The outer loop accepting a polyline whose two nearest vertices coincide.
BestScanAnyIndices(segments, from, to, k, best) ==
  IF k > Len(segments) THEN best
  ELSE LET coords == segments[k]
           f == Nearest(coords, from)
           t == Nearest(coords, to)
           score == <<f[2], t[2]>>
       IN IF best.seg = 0 \/ ScoreLess(score, best.score)
          THEN BestScanAnyIndices(segments, from, to, k + 1,
                        [seg |-> k, fromIdx |-> f[1], toIdx |-> t[1], score |-> score])
          ELSE BestScanAnyIndices(segments, from, to, k + 1, best)

RECURSIVE BestScanScoreFirst(_, _, _, _, _)
\* The outer loop that lowers the best score before it tests the indices, so
\* that a polyline whose nearest vertices coincide still sets the score to
\* beat.
BestScanScoreFirst(segments, from, to, k, best) ==
  IF k > Len(segments) THEN best
  ELSE LET coords == segments[k]
           f == Nearest(coords, from)
           t == Nearest(coords, to)
           score == <<f[2], t[2]>>
       IN IF "scored" \notin DOMAIN best \/ ScoreLess(score, best.score)
          THEN IF f[1] # t[1]
               THEN BestScanScoreFirst(segments, from, to, k + 1,
                      [seg |-> k, fromIdx |-> f[1], toIdx |-> t[1], score |-> score,
                       scored |-> TRUE])
               ELSE BestScanScoreFirst(segments, from, to, k + 1,
                      [seg |-> best.seg, fromIdx |-> best.fromIdx,
                       toIdx |-> best.toIdx, score |-> score, scored |-> TRUE])
          ELSE BestScanScoreFirst(segments, from, to, k + 1, best)

RECURSIVE BestScan(_, _, _, _, _)
\* The outer loop of findTrackPath: best = [seg, fromIdx, toIdx, score], with
\* seg = 0 standing for bestSegment = null and bestScore = Infinity.
BestScan(segments, from, to, k, best) ==
  IF k > Len(segments) THEN best
  ELSE LET coords == segments[k]
           f == Nearest(coords, from)
           t == Nearest(coords, to)
           score == <<f[2], t[2]>>
       IN IF (best.seg = 0 \/ ScoreLess(score, best.score)) /\ f[1] # t[1]
          THEN BestScan(segments, from, to, k + 1,
                        [seg |-> k, fromIdx |-> f[1], toIdx |-> t[1], score |-> score])
          ELSE BestScan(segments, from, to, k + 1, best)

NoBest == [seg |-> 0, fromIdx |-> 0, toIdx |-> 0, score |-> <<0, 0>>]

\* The polyline findTrackPath selects on a list of polylines, with the two
\* nearest indices (seg = 0: none).
BestSegment(segments, from, to) == BestScan(segments, from, to, 1, NoBest)

\* coords.slice(startIdx, endIdx): the slice with the end vertex left out.
SliceExclusive(coords, startIdx, endIdx) == SubSeq(coords, startIdx, endIdx - 1)

\* coords.slice(startIdx, endIdx + 1), 1-based inclusive.
Slice(coords, startIdx, endIdx) == SubSeq(coords, startIdx, endIdx)

\* Array.prototype.reverse
Reverse(s) == [i \in 1..Len(s) |-> s[Len(s) + 1 - i]]

\* The extraction that leaves the slice in polyline order.
ExtractPathNoReverse(coords, fromIdx, toIdx) ==
  Slice(coords, Min(fromIdx, toIdx), Max(fromIdx, toIdx))

\* Lines 95-107: the path between the two indices, oriented from -> to.
ExtractPath(coords, fromIdx, toIdx) ==
  LET path == Slice(coords, Min(fromIdx, toIdx), Max(fromIdx, toIdx))
  IN IF fromIdx > toIdx THEN Reverse(path) ELSE path

\* The lookup that returns only the two nearest vertices of the selected
\* polyline, without the vertices between them.
FindTrackPathChord(index, from, to, lineName) ==
  IF lineName \notin DOMAIN index \/ Len(index[lineName]) = 0 THEN Null
  ELSE LET best == BestSegment(index[lineName], from, to)
       IN IF best.seg = 0 THEN Null
          ELSE <<index[lineName][best.seg][best.fromIdx],
                 index[lineName][best.seg][best.toIdx]>>

\* findTrackPath(from, to, lineName) on a given index.
FindTrackPathIn(index, from, to, lineName) ==
  IF lineName \notin DOMAIN index \/ Len(index[lineName]) = 0 THEN Null
  ELSE LET best == BestSegment(index[lineName], from, to)
       IN IF best.seg = 0 THEN Null
          ELSE ExtractPath(index[lineName][best.seg], best.fromIdx, best.toIdx)

findTrackPath(from, to, lineName) == FindTrackPathIn(lineSegments, from, to, lineName)

\* interpolateAlongPath: the lengths of the consecutive segments of a path.
segmentLengths(path) == [i \in 1..(Len(path) - 1) |-> distance(path[i], path[i + 1])]

RECURSIVE SumSeq(_, _)
SumSeq(s, n) == IF n = 0 THEN 0 ELSE s[n] + SumSeq(s, n - 1)

RECURSIVE WalkPathNoOffset(_, _, _, _, _)
\* The second loop taking the whole target distance as the distance into
\* the segment.
WalkPathNoOffset(path, lens, targetDist, i, currentDist) ==
  IF i > Len(lens) THEN path[Len(path)]
  ELSE IF (currentDist + lens[i]) * 10000 >= targetDist
       THEN LET segProgress == Quot(targetDist, lens[i])
                p1 == path[i]
                p2 == path[i + 1]
            IN <<p1[1] + Quot((p2[1] - p1[1]) * segProgress, 10000),
                 p1[2] + Quot((p2[2] - p1[2]) * segProgress, 10000)>>
       ELSE WalkPathNoOffset(path, lens, targetDist, i + 1, currentDist + lens[i])

RECURSIVE WalkPath(_, _, _, _, _)
\* The second loop of interpolateAlongPath (lines 136-152); targetDist is
\* progress * totalLength, kept with the progress scale (units / 10000).
WalkPath(path, lens, targetDist, i, currentDist) ==
  IF i > Len(lens) THEN path[Len(path)]
  ELSE IF (currentDist + lens[i]) * 10000 >= targetDist
       THEN LET segProgress == Quot(targetDist - currentDist * 10000, lens[i])
                p1 == path[i]
                p2 == path[i + 1]
            IN <<p1[1] + Quot((p2[1] - p1[1]) * segProgress, 10000),
                 p1[2] + Quot((p2[2] - p1[2]) * segProgress, 10000)>>
       ELSE WalkPath(path, lens, targetDist, i + 1, currentDist + lens[i])

\* The sampler without the two early returns on progress.
interpolateAlongPathUnclamped(path, progress) ==
  IF Len(path) = 0 THEN <<0, 0>>
  ELSE IF Len(path) = 1 THEN path[1]
  ELSE LET lens == segmentLengths(path)
           totalLength == SumSeq(lens, Len(lens))
       IN IF totalLength = 0 THEN path[1]
          ELSE WalkPath(path, lens, progress * totalLength, 1, 0)

\* The sampler that answers the origin for a path of zero total length.
interpolateAlongPathZeroOrigin(path, progress) ==
  IF Len(path) = 0 THEN <<0, 0>>
  ELSE IF Len(path) = 1 THEN path[1]
  ELSE IF progress <= 0 THEN path[1]
  ELSE IF progress >= 10000 THEN path[Len(path)]
  ELSE LET lens == segmentLengths(path)
           totalLength == SumSeq(lens, Len(lens))
       IN IF totalLength = 0 THEN <<0, 0>>
          ELSE WalkPath(path, lens, progress * totalLength, 1, 0)

\* interpolateAlongPath(path, progress), progress in 1/10000.
interpolateAlongPath(path, progress) ==
  IF Len(path) = 0 THEN <<0, 0>>
  ELSE IF Len(path) = 1 THEN path[1]
  ELSE IF progress <= 0 THEN path[1]
  ELSE IF progress >= 10000 THEN path[Len(path)]
  ELSE LET lens == segmentLengths(path)
           totalLength == SumSeq(lens, Len(lens))
       IN IF totalLength = 0 THEN path[1]
          ELSE WalkPath(path, lens, progress * totalLength, 1, 0)

\* LINE_ID_TO_NAME[lineId] || lineId
LINE_ID_TO_NAME == [victoria |-> "Victoria", northern |-> "Northern"]

getLineDisplayName(lineId) ==
  IF lineId \in DOMAIN LINE_ID_TO_NAME THEN LINE_ID_TO_NAME[lineId] ELSE lineId

----------------------------------------------------------------------------
(* stationLookup (part_000) *)

\* The station map built from the stations dataset: name -> coordinates.
stationMap == [Brixton |-> <<0, 0>>, Stockwell |-> <<6000, 0>>]

getStationCoordinates(stationName) ==
  IF stationName \in DOMAIN stationMap THEN stationMap[stationName] ELSE Null

----------------------------------------------------------------------------
(* useTrainPositions, track-path variant (part_001 lines 1-281) *)

ANIMATION_DURATION == 14000
TRAIL_LENGTH == 20
\* SMOOTH_TIME = 0.5 s, in milliseconds
SMOOTH_TIME == 500
\* The cap of deltaTime, 0.1 s, in milliseconds
DELTA_CAP == 100
\* The trail threshold 0.00003 degree, in coordinate units
TRAIL_THRESHOLD == 30

\* easeInOutQuad(t), t and the result in 1/10000.
easeInOutQuad(t) ==
  IF t < 5000 THEN Quot(2 * t * t, 10000)
  ELSE 10000 - Quot((20000 - 2 * t) * (20000 - 2 * t), 20000)

\* lerp(a, b, t), t in 1/10000.
lerp(a, b, t) == a + Quot((b - a) * t, 10000)

\* 1 / exp of smoothDamp, times 10000: 1 + x + 0.48 x^2 + 0.235 x^3 with
\* x = omega * deltaTime, x1000 = 1000 x.
DampDenominator(x1000) ==
  10000 + 10 * x1000 + Quot(48 * x1000 * x1000, 10000)
        + Quot(235 * Quot(x1000 * x1000 * x1000, 1000), 100000)

\* The step without the overshoot test.
smoothDampNoClamp(current, target, velocity, smoothTime, deltaTime) ==
  LET omega == Quot(2000, smoothTime)
      den == DampDenominator(omega * deltaTime)
      change == current - target
      temp == Quot((velocity + omega * change) * deltaTime, 1000)
      newVelocity == Quot((velocity - omega * temp) * 10000, den)
      newValue == target + Quot((change + temp) * 10000, den)
  IN [value |-> newValue, velocity |-> newVelocity]

\* smoothDamp(current, target, velocity, smoothTime, deltaTime); the two
\* times in milliseconds, velocity in units per second.
smoothDamp(current, target, velocity, smoothTime, deltaTime) ==
  LET omega == Quot(2000, smoothTime)
      den == DampDenominator(omega * deltaTime)
      change == current - target
      temp == Quot((velocity + omega * change) * deltaTime, 1000)
      newVelocity == Quot((velocity - omega * temp) * 10000, den)
      newValue == target + Quot((change + temp) * 10000, den)
  IN IF (target - current > 0) = (newValue > target)
     THEN [value |-> target, velocity |-> 0]
     ELSE [value |-> newValue, velocity |-> newVelocity]

\* calculateHeading(from, to): the bearing (0 = north, clockwise), rounded
\* down to a multiple of 45 degrees.
calculateHeading(from, to) ==
  LET dLng == to[1] - from[1]
      dLat == to[2] - from[2]
  IN IF dLng = 0 /\ dLat = 0 THEN 0
     ELSE IF dLng >= 0 /\ dLat > 0 THEN (IF dLng < dLat THEN 0 ELSE 45)
     ELSE IF dLng > 0 /\ dLat <= 0 THEN (IF -dLat < dLng THEN 90 ELSE 135)
     ELSE IF dLng <= 0 /\ dLat < 0 THEN (IF -dLng < -dLat THEN 180 ELSE 225)
     ELSE (IF dLat < -dLng THEN 270 ELSE 315)

\* Manhattan distance between two positions (the trail test).
Manhattan(a, b) == Abs(a[1] - b[1]) + Abs(a[2] - b[2])

\* [...trail, position] with the slice left out.
AppendNoSlice(trail, position, n) == Append(trail, position)

\* [...trail, position].slice(-n)
AppendSlice(trail, position, n) ==
  LET all == Append(trail, position)
  IN IF Len(all) <= n THEN all ELSE SubSeq(all, Len(all) - n + 1, Len(all))

\* The transition starting from the old current keyframe instead of the last
\* rendered position.
TransitionFromCurrent(existing, train, coords, now) ==
  LET startPosition == existing.current.position
      trackPath == findTrackPath(startPosition, coords, getLineDisplayName(train.lineId))
  IN [previous |-> [position |-> startPosition, timestamp |-> existing.current.timestamp],
      current |-> [position |-> coords, timestamp |-> now],
      train |-> train,
      trail |-> existing.trail,
      trackPath |-> trackPath,
      lastInterpolatedPosition |-> startPosition,
      velocity |-> existing.velocity]

\* The transition with the velocity reset.
TransitionResetVelocity(existing, train, coords, now) ==
  LET startPosition == IF existing.lastInterpolatedPosition # Null
                       THEN existing.lastInterpolatedPosition
                       ELSE existing.current.position
      trackPath == findTrackPath(startPosition, coords, getLineDisplayName(train.lineId))
  IN [previous |-> [position |-> startPosition, timestamp |-> existing.current.timestamp],
      current |-> [position |-> coords, timestamp |-> now],
      train |-> train,
      trail |-> existing.trail,
      trackPath |-> trackPath,
      lastInterpolatedPosition |-> startPosition,
      velocity |-> <<0, 0>>]

\* The transition with the previous keyframe stamped with the ingestion time.
TransitionStampedNow(existing, train, coords, now) ==
  LET startPosition == IF existing.lastInterpolatedPosition # Null
                       THEN existing.lastInterpolatedPosition
                       ELSE existing.current.position
      trackPath == findTrackPath(startPosition, coords, getLineDisplayName(train.lineId))
  IN [previous |-> [position |-> startPosition, timestamp |-> now],
      current |-> [position |-> coords, timestamp |-> now],
      train |-> train,
      trail |-> existing.trail,
      trackPath |-> trackPath,
      lastInterpolatedPosition |-> startPosition,
      velocity |-> existing.velocity]

\* The transition that snaps the last rendered position to the new station.
TransitionSnap(existing, train, coords, now) ==
  LET startPosition == IF existing.lastInterpolatedPosition # Null
                       THEN existing.lastInterpolatedPosition
                       ELSE existing.current.position
      trackPath == findTrackPath(startPosition, coords, getLineDisplayName(train.lineId))
  IN [previous |-> [position |-> startPosition, timestamp |-> existing.current.timestamp],
      current |-> [position |-> coords, timestamp |-> now],
      train |-> train,
      trail |-> existing.trail,
      trackPath |-> trackPath,
      lastInterpolatedPosition |-> coords,
      velocity |-> existing.velocity]

\* Lines 103-124: the record of a known train whose station changed.
Transition(existing, train, coords, now) ==
  LET startPosition == IF existing.lastInterpolatedPosition # Null
                       THEN existing.lastInterpolatedPosition
                       ELSE existing.current.position
      trackPath == findTrackPath(startPosition, coords, getLineDisplayName(train.lineId))
  IN [previous |-> [position |-> startPosition, timestamp |-> existing.current.timestamp],
      current |-> [position |-> coords, timestamp |-> now],
      train |-> train,
      trail |-> existing.trail,
      trackPath |-> trackPath,
      lastInterpolatedPosition |-> startPosition,
      velocity |-> existing.velocity]

\* The first record with the current keyframe as previous keyframe too.
NewTrainWithPrevious(train, coords, now) ==
  [previous |-> [position |-> coords, timestamp |-> now],
   current |-> [position |-> coords, timestamp |-> now],
   train |-> train,
   trail |-> <<coords>>,
   trackPath |-> Null,
   lastInterpolatedPosition |-> coords,
   velocity |-> <<0, 0>>]

\* The record of a first sighting with a trail that starts empty.
NewTrainEmptyTrail(train, coords, now) ==
  [previous |-> Null,
   current |-> [position |-> coords, timestamp |-> now],
   train |-> train,
   trail |-> <<>>,
   trackPath |-> Null,
   lastInterpolatedPosition |-> coords,
   velocity |-> <<0, 0>>]

\* Lines 131-139: the record of a train seen for the first time.
NewTrain(train, coords, now) ==
  [previous |-> Null,
   current |-> [position |-> coords, timestamp |-> now],
   train |-> train,
   trail |-> <<coords>>,
   trackPath |-> Null,
   lastInterpolatedPosition |-> coords,
   velocity |-> <<0, 0>>]

\* posChanged (lines 99-101)
posChanged(coords, existing) ==
  coords[1] # existing.current.position[1] \/ coords[2] # existing.current.position[2]

\* Map.set(id, state)
MapSet(m, id, state) ==
  [k \in DOMAIN m \cup {id} |-> IF k = id THEN state ELSE m[k]]

\* Map.delete for every id outside keep
MapKeep(m, keep) == [k \in DOMAIN m \cap keep |-> m[k]]

\* The loop body deleting the record of a train whose station is not found.
IngestOneDropUnresolved(acc, train, now) ==
  LET coords == getStationCoordinates(train.currentStation)
  IN IF coords = Null
     THEN [acc EXCEPT !.states = MapKeep(acc.states, DOMAIN acc.states \ {train.id})]
     ELSE IF train.id \in DOMAIN acc.states
     THEN LET existing == acc.states[train.id]
          IN IF posChanged(coords, existing)
             THEN [states |-> MapSet(acc.states, train.id,
                                     Transition(existing, train, coords, now)),
                   resolved |-> acc.resolved \cup {train.id}]
             ELSE [acc EXCEPT !.states[train.id].train = train]
     ELSE [acc EXCEPT !.states = MapSet(acc.states, train.id, NewTrain(train, coords, now))]

\* The loop body leaving the train data of a same-station report as it was.
IngestOneKeepTrain(acc, train, now) ==
  LET coords == getStationCoordinates(train.currentStation)
  IN IF coords = Null THEN acc
     ELSE IF train.id \in DOMAIN acc.states
     THEN LET existing == acc.states[train.id]
          IN IF posChanged(coords, existing)
             THEN [states |-> MapSet(acc.states, train.id,
                                     Transition(existing, train, coords, now)),
                   resolved |-> acc.resolved \cup {train.id}]
             ELSE acc
     ELSE [acc EXCEPT !.states = MapSet(acc.states, train.id, NewTrain(train, coords, now))]

\* The loop body resolving the path again on a same-station report.
IngestOneRePath(acc, train, now) ==
  LET coords == getStationCoordinates(train.currentStation)
  IN IF coords = Null THEN acc
     ELSE IF train.id \in DOMAIN acc.states
     THEN LET existing == acc.states[train.id]
          IN IF posChanged(coords, existing)
             THEN [states |-> MapSet(acc.states, train.id,
                                     Transition(existing, train, coords, now)),
                   resolved |-> acc.resolved \cup {train.id}]
             ELSE [acc EXCEPT !.states[train.id].train = train,
                              !.states[train.id].trackPath =
                                 findTrackPath(existing.lastInterpolatedPosition, coords,
                                               getLineDisplayName(train.lineId))]
     ELSE [acc EXCEPT !.states = MapSet(acc.states, train.id, NewTrain(train, coords, now))]

\* The body of trains.forEach (lines 91-141) for one train: acc.states is the
\* map, acc.resolved the ids findTrackPath was called for.
IngestOne(acc, train, now) ==
  LET coords == getStationCoordinates(train.currentStation)
  IN IF coords = Null THEN acc
     ELSE IF train.id \in DOMAIN acc.states
     THEN LET existing == acc.states[train.id]
          IN IF posChanged(coords, existing)
             THEN [states |-> MapSet(acc.states, train.id,
                                     Transition(existing, train, coords, now)),
                   resolved |-> acc.resolved \cup {train.id}]
             ELSE [acc EXCEPT !.states[train.id].train = train]
     ELSE [acc EXCEPT !.states = MapSet(acc.states, train.id, NewTrain(train, coords, now))]

RECURSIVE IngestLoop(_, _, _, _)
IngestLoop(acc, trains, i, now) ==
  IF i > Len(trains) THEN acc
  ELSE IngestLoop(IngestOne(acc, trains[i], now), trains, i + 1, now)

\* new Set(trains.map((t) => t.id))
currentIds(trains) == {trains[i].id : i \in 1..Len(trains)}

\* Stale removal with a minute of grace after the last keyframe.
RemoveStaleGrace(states, trains, now) ==
  MapKeep(states, currentIds(trains)
                    \cup {id \in DOMAIN states : now - states[id].current.timestamp <= 60000})

\* Stale removal left out.
RemoveStaleNever(states, trains, now) == states

\* Lines 143-149: remove stale trains.
RemoveStale(states, trains, now) == MapKeep(states, currentIds(trains))

\* The ingestion effect (lines 86-150), run with Date.now() = now.
Ingest(trains, now) ==
  /\ mounted
  /\ variant = "track"
  /\ LET acc == IngestLoop([states |-> trainStates, resolved |-> {}], trains, 1, now)
     IN /\ trainStates' = RemoveStale(acc.states, trains, now)
        /\ lastOp' = [op |-> "ingest", trains |-> trains, now |-> now,
                      resolved |-> acc.resolved]
  /\ clock' = now
  /\ UNCHANGED serverVars
  /\ UNCHANGED <<variant, lineSegments, positions, lastFrameTime, animationRef,
                 rafPending, rafCount, mounted>>

\* The target that jumps to the current keyframe when there is no path.
TargetJump(state, now) ==
  LET elapsed == now - state.current.timestamp
      rawProgress == IF elapsed >= ANIMATION_DURATION THEN 10000
                     ELSE Quot(elapsed * 10000, ANIMATION_DURATION)
      progress == easeInOutQuad(rawProgress)
  IN IF state.trackPath # Null /\ Len(state.trackPath) >= 2
     THEN [position |-> interpolateAlongPath(state.trackPath, progress),
           heading |-> calculateHeading(
                         interpolateAlongPath(state.trackPath, Max(0, progress - 500)),
                         interpolateAlongPath(state.trackPath, Min(10000, progress + 500)))]
     ELSE [position |-> state.current.position,
           heading |-> IF state.previous.position[1] # state.current.position[1]
                          \/ state.previous.position[2] # state.current.position[2]
                       THEN calculateHeading(state.previous.position, state.current.position)
                       ELSE 0]

\* Lines 166-170: elapsed / ANIMATION_DURATION capped at 1 by Math.min, and
\* its easing, both in 1/10000.
TickProgress(state, now) ==
  LET elapsed == now - state.current.timestamp
      rawProgress == IF elapsed >= ANIMATION_DURATION THEN 10000
                     ELSE Quot(elapsed * 10000, ANIMATION_DURATION)
  IN [raw |-> rawProgress, eased |-> easeInOutQuad(rawProgress)]

\* Lines 166-196: the target position and heading of a record with a previous
\* keyframe.
Target(state, now) ==
  LET progress == TickProgress(state, now).eased
  IN IF state.trackPath # Null /\ Len(state.trackPath) >= 2
     THEN [position |-> interpolateAlongPath(state.trackPath, progress),
           heading |-> calculateHeading(
                         interpolateAlongPath(state.trackPath, Max(0, progress - 500)),
                         interpolateAlongPath(state.trackPath, Min(10000, progress + 500)))]
     ELSE [position |-> <<lerp(state.previous.position[1], state.current.position[1], progress),
                          lerp(state.previous.position[2], state.current.position[2], progress)>>,
           heading |-> IF state.previous.position[1] # state.current.position[1]
                          \/ state.previous.position[2] # state.current.position[2]
                       THEN calculateHeading(state.previous.position, state.current.position)
                       ELSE 0]

\* The trail appended to on every tick.
UpdateTrailAlways(trail, position) == AppendSlice(trail, position, TRAIL_LENGTH)

\* Lines 223-228: the trail after rendering position.
UpdateTrail(trail, position) ==
  IF Manhattan(position, trail[Len(trail)]) > TRAIL_THRESHOLD
  THEN AppendSlice(trail, position, TRAIL_LENGTH)
  ELSE trail

\* The tick that moves the previous keyframe to the rendered position.
AnimateOneAdvanceKeyframe(state, now, deltaTime) ==
  IF state.previous # Null
  THEN LET target == Target(state, now)
           currentPos == state.lastInterpolatedPosition
           smoothX == smoothDamp(currentPos[1], target.position[1], state.velocity[1],
                                 SMOOTH_TIME, deltaTime)
           smoothY == smoothDamp(currentPos[2], target.position[2], state.velocity[2],
                                 SMOOTH_TIME, deltaTime)
           position == <<smoothX.value, smoothY.value>>
       IN [state |-> [state EXCEPT !.velocity = <<smoothX.velocity, smoothY.velocity>>,
                                   !.lastInterpolatedPosition = position,
                                   !.previous = [position |-> position, timestamp |-> now],
                                   !.trail = UpdateTrail(state.trail, position)],
           out |-> [train |-> state.train, position |-> position,
                    heading |-> target.heading]]
  ELSE [state |-> [state EXCEPT !.lastInterpolatedPosition = state.current.position,
                                !.velocity = <<0, 0>>],
        out |-> [train |-> state.train, position |-> state.current.position,
                 heading |-> 0]]

\* The tick that appends to the trail of a record without previous keyframe.
AnimateOneTrailOnIdle(state, now, deltaTime) ==
  IF state.previous # Null
  THEN LET target == Target(state, now)
           currentPos == state.lastInterpolatedPosition
           smoothX == smoothDamp(currentPos[1], target.position[1], state.velocity[1],
                                 SMOOTH_TIME, deltaTime)
           smoothY == smoothDamp(currentPos[2], target.position[2], state.velocity[2],
                                 SMOOTH_TIME, deltaTime)
           position == <<smoothX.value, smoothY.value>>
       IN [state |-> [state EXCEPT !.velocity = <<smoothX.velocity, smoothY.velocity>>,
                                   !.lastInterpolatedPosition = position,
                                   !.trail = UpdateTrail(state.trail, position)],
           out |-> [train |-> state.train, position |-> position,
                    heading |-> target.heading]]
  ELSE [state |-> [state EXCEPT !.lastInterpolatedPosition = state.current.position,
                                !.velocity = <<0, 0>>,
                                !.trail = AppendSlice(state.trail, state.current.position,
                                                      TRAIL_LENGTH)],
        out |-> [train |-> state.train, position |-> state.current.position,
                 heading |-> 0]]

\* The body of trainStates.current.forEach in animate (lines 160-241) for one
\* record: the record after the tick and the snapshot pushed to result.
AnimateOne(state, now, deltaTime) ==
  IF state.previous # Null
  THEN LET target == Target(state, now)
           currentPos == IF state.lastInterpolatedPosition # Null
                         THEN state.lastInterpolatedPosition
                         ELSE state.previous.position
           smoothX == smoothDamp(currentPos[1], target.position[1], state.velocity[1],
                                 SMOOTH_TIME, deltaTime)
           smoothY == smoothDamp(currentPos[2], target.position[2], state.velocity[2],
                                 SMOOTH_TIME, deltaTime)
           position == <<smoothX.value, smoothY.value>>
       IN [state |-> [state EXCEPT !.velocity = <<smoothX.velocity, smoothY.velocity>>,
                                   !.lastInterpolatedPosition = position,
                                   !.trail = UpdateTrail(state.trail, position)],
           out |-> [train |-> state.train, position |-> position,
                    heading |-> target.heading]]
  ELSE [state |-> [state EXCEPT !.lastInterpolatedPosition = state.current.position,
                                !.velocity = <<0, 0>>],
        out |-> [train |-> state.train, position |-> state.current.position,
                 heading |-> 0]]

\* The vehicle ids of the model, in the order the map is iterated.
IdOrder == <<"victoria-201", "northern-105">>
Ids == {IdOrder[i] : i \in 1..Len(IdOrder)}

RECURSIVE AnimateLoopSkipIdle(_, _, _, _)
\* The loop that pushes a snapshot only for a record with a previous keyframe.
AnimateLoopSkipIdle(acc, i, now, deltaTime) ==
  IF i > Len(IdOrder) THEN acc
  ELSE IF IdOrder[i] \notin DOMAIN acc.states
       THEN AnimateLoopSkipIdle(acc, i + 1, now, deltaTime)
       ELSE LET r == AnimateOne(acc.states[IdOrder[i]], now, deltaTime)
            IN AnimateLoopSkipIdle(
                 [states |-> [acc.states EXCEPT ![IdOrder[i]] = r.state],
                  result |-> IF acc.states[IdOrder[i]].previous # Null
                             THEN Append(acc.result, r.out)
                             ELSE acc.result],
                 i + 1, now, deltaTime)

RECURSIVE AnimateLoop(_, _, _, _)
\* trainStates.current.forEach in animate: acc.states the records after the
\* tick, acc.result the array pushed so far.
AnimateLoop(acc, i, now, deltaTime) ==
  IF i > Len(IdOrder) THEN acc
  ELSE IF IdOrder[i] \notin DOMAIN acc.states
       THEN AnimateLoop(acc, i + 1, now, deltaTime)
       ELSE LET r == AnimateOne(acc.states[IdOrder[i]], now, deltaTime)
            IN AnimateLoop([states |-> [acc.states EXCEPT ![IdOrder[i]] = r.state],
                            result |-> Append(acc.result, r.out)],
                           i + 1, now, deltaTime)

\* The delta capped at twice the bound.
DeltaTimeWideCap(now) == Min(now - lastFrameTime, 2 * DELTA_CAP)

\* Math.min((now - lastFrameTime) / 1000, 0.1), in milliseconds (line 155)
DeltaTime(now) == Min(now - lastFrameTime, DELTA_CAP)

\* targetPosition of the tick at `now` for every record with a previous
\* keyframe (lines 172-196), as the tick computes it.
Targets(now) ==
  [id \in {i \in DOMAIN trainStates : trainStates[i].previous # Null} |->
     Target(trainStates[id], now).position]

\* rawProgress and progress of the tick at `now` for every record with a
\* previous keyframe (lines 166-170), as the tick computes them.
Progresses(now) ==
  [id \in {i \in DOMAIN trainStates : trainStates[i].previous # Null} |->
     TickProgress(trainStates[id], now)]

\* The frame callback animate (lines 153-245), run by the host for the
\* pending request h with Date.now() = now.
Animate(h, now) ==
  /\ variant = "track"
  /\ h \in rafPending
  /\ LET acc == AnimateLoop([states |-> trainStates, result |-> <<>>],
                            1, now, DeltaTime(now))
     IN /\ trainStates' = acc.states
        /\ positions' = acc.result
  /\ lastFrameTime' = now
  /\ clock' = now
  /\ rafCount' = rafCount + 1
  /\ animationRef' = rafCount + 1
  /\ rafPending' = (rafPending \ {h}) \cup {rafCount + 1}
  /\ lastOp' = [op |-> "animate", now |-> now, deltaTime |-> DeltaTime(now),
                targets |-> Targets(now), progress |-> Progresses(now)]
  /\ UNCHANGED serverVars
  /\ UNCHANGED <<variant, lineSegments, mounted>>

RECURSIVE TrailsLoop(_, _, _)
\* trainStates.current.forEach in getTrails: the entries pushed for the
\* records from the i-th on whose trail has more than minLength points.
TrailsLoop(states, i, minLength) ==
  IF i > Len(IdOrder) THEN <<>>
  ELSE IF IdOrder[i] \in DOMAIN states /\ Len(states[IdOrder[i]].trail) > minLength
       THEN <<[id |-> IdOrder[i],
               lineId |-> states[IdOrder[i]].train.lineId,
               lineName |-> states[IdOrder[i]].train.lineName,
               coordinates |-> states[IdOrder[i]].trail]>>
            \o TrailsLoop(states, i + 1, minLength)
       ELSE TrailsLoop(states, i + 1, minLength)

\* getTrails with the test trail.length >= 2.
getTrailsAtLeast == TrailsLoop(trainStates, 1, 1)

\* getTrails of the track variant (lines 258-278): trail.length > 2.
getTrails == TrailsLoop(trainStates, 1, 2)

\* getTrails of the older variant (lines 442-462): trail.length > 1.
getTrailsOld == TrailsLoop(trainStates, 1, 1)

\* The map layer calls getTrails (either variant's) while the hook is mounted.
CallGetTrails ==
  /\ mounted
  /\ lastOp.op # "getTrails"
  /\ lastOp' = [op |-> "getTrails",
                result |-> IF variant = "track" THEN getTrails ELSE getTrailsOld]
  /\ UNCHANGED serverVars
  /\ UNCHANGED <<variant, lineSegments, trainStates, positions, lastFrameTime, clock,
                 animationRef, rafPending, rafCount, mounted>>

\* The cleanup that cancels the handle the effect obtained when it ran.
CleanupFirstHandle ==
  /\ mounted
  /\ mounted' = FALSE
  /\ rafPending' = rafPending \ {1}
  /\ lastOp' = [op |-> "cleanup"]
  /\ UNCHANGED serverVars
  /\ UNCHANGED <<variant, lineSegments, trainStates, positions, lastFrameTime, clock,
                 animationRef, rafCount>>

\* The cleanup of the start-animation effect (lines 250-254).
Cleanup ==
  /\ mounted
  /\ mounted' = FALSE
  /\ rafPending' = IF animationRef # 0 THEN rafPending \ {animationRef} ELSE rafPending
  /\ lastOp' = [op |-> "cleanup"]
  /\ UNCHANGED serverVars
  /\ UNCHANGED <<variant, lineSegments, trainStates, positions, lastFrameTime, clock,
                 animationRef, rafCount>>

----------------------------------------------------------------------------
(* useTrainPositions, older variant (part_001 lines 283-465) *)

INTERPOLATION_DURATION == 15000
TRAIL_LENGTH_OLD == 15
\* PREDICTION_SPEED = 0.00001 degree, in coordinate units
PREDICTION_SPEED == 10
\* The trail threshold 0.00005 degree, in coordinate units
TRAIL_THRESHOLD_OLD == 50
\* The movement threshold 0.0001 degree of the velocity estimate, in units
VELOCITY_MIN_DIST == 100
\* The grace period of stale trains, in milliseconds
STALE_AFTER == 60000

\* easeOutQuad(t), t and the result in 1/10000.
easeOutQuad(t) == 10000 - Quot((10000 - t) * (10000 - t), 10000)

\* Lines 341-349: the velocity estimated from the movement between two
\* reported stations, in 1/1000 unit per second.
VelocityOld(existing, coords) ==
  LET dx == coords[1] - existing.current.position[1]
      dy == coords[2] - existing.current.position[2]
      dist == ISqrt(dx * dx + dy * dy)
  IN IF dist > VELOCITY_MIN_DIST
     THEN <<Quot(dx * PREDICTION_SPEED * 1000, dist), Quot(dy * PREDICTION_SPEED * 1000, dist)>>
     ELSE existing.velocity

\* Lines 351-357: the record of a known train.
UpdateOld(existing, train, coords, now) ==
  [previous |-> existing.current,
   current |-> [position |-> coords, timestamp |-> now, timeToStation |-> train.timeToStation],
   train |-> train,
   trail |-> existing.trail,
   velocity |-> VelocityOld(existing, coords)]

\* Lines 359-365: the record of a train seen for the first time.
NewTrainOld(train, coords, now) ==
  [previous |-> Null,
   current |-> [position |-> coords, timestamp |-> now, timeToStation |-> train.timeToStation],
   train |-> train,
   trail |-> <<coords>>,
   velocity |-> <<0, 0>>]

\* The body of trains.forEach (lines 334-367) for one train.
IngestOneOld(acc, train, now) ==
  LET coords == getStationCoordinates(train.currentStation)
  IN IF coords = Null THEN acc
     ELSE IF train.id \in DOMAIN acc.states
     THEN [acc EXCEPT !.states = MapSet(acc.states, train.id,
                                        UpdateOld(acc.states[train.id], train, coords, now))]
     ELSE [acc EXCEPT !.states = MapSet(acc.states, train.id, NewTrainOld(train, coords, now))]

RECURSIVE IngestLoopOld(_, _, _, _)
IngestLoopOld(acc, trains, i, now) ==
  IF i > Len(trains) THEN acc
  ELSE IngestLoopOld(IngestOneOld(acc, trains[i], now), trains, i + 1, now)

\* The removal of every record whose id is not in the batch, as in the track
\* variant.
RemoveStaleOldImmediate(states, trains, now) == MapKeep(states, currentIds(trains))

\* Lines 369-375: remove trains not seen for 60 seconds.
RemoveStaleOld(states, trains, now) ==
  MapKeep(states, currentIds(trains)
                  \cup {id \in DOMAIN states : ~(now - states[id].current.timestamp > STALE_AFTER)})

\* The ingestion effect (lines 329-376), run with Date.now() = now.
IngestOld(trains, now) ==
  /\ mounted
  /\ variant = "older"
  /\ LET acc == IngestLoopOld([states |-> trainStates, resolved |-> {}], trains, 1, now)
     IN /\ trainStates' = RemoveStaleOld(acc.states, trains, now)
        /\ lastOp' = [op |-> "ingest", trains |-> trains, now |-> now,
                      resolved |-> acc.resolved]
  /\ clock' = now
  /\ UNCHANGED serverVars
  /\ UNCHANGED <<variant, lineSegments, positions, lastFrameTime, animationRef,
                 rafPending, rafCount, mounted>>

\* Lines 412-417: the trail after rendering position.
UpdateTrailOld(trail, position) ==
  IF Manhattan(position, trail[Len(trail)]) > TRAIL_THRESHOLD_OLD
  THEN AppendSlice(trail, position, TRAIL_LENGTH_OLD)
  ELSE trail

\* Lines 389-407: the rendered position of a record with a previous keyframe.
PositionOld(state, now) ==
  LET elapsed == now - state.current.timestamp
      rawProgress == IF elapsed >= INTERPOLATION_DURATION THEN 10000
                     ELSE Quot(elapsed * 10000, INTERPOLATION_DURATION)
      progress == easeOutQuad(rawProgress)
      position == <<lerp(state.previous.position[1], state.current.position[1], progress),
                    lerp(state.previous.position[2], state.current.position[2], progress)>>
  IN IF rawProgress >= 10000 /\ (state.velocity[1] # 0 \/ state.velocity[2] # 0)
     THEN LET extraTime == Quot((elapsed - INTERPOLATION_DURATION) * 3, 10)
          IN <<position[1] + Quot(state.velocity[1] * extraTime, 1000000),
               position[2] + Quot(state.velocity[2] * extraTime, 1000000)>>
     ELSE position

\* The body of trainStates.current.forEach in animate (lines 383-427) for one
\* record; deltaTime is not used by this variant.
AnimateOneOld(state, now, deltaTime) ==
  IF state.previous # Null
  THEN LET position == PositionOld(state, now)
       IN [state |-> [state EXCEPT !.trail = UpdateTrailOld(state.trail, position)],
           out |-> [train |-> state.train, position |-> position,
                    heading |-> calculateHeading(state.previous.position,
                                                 state.current.position)]]
  ELSE [state |-> state,
        out |-> [train |-> state.train, position |-> state.current.position,
                 heading |-> 0]]

RECURSIVE AnimateLoopOld(_, _, _)
\* trainStates.current.forEach in animate of the older variant.
AnimateLoopOld(acc, i, now) ==
  IF i > Len(IdOrder) THEN acc
  ELSE IF IdOrder[i] \notin DOMAIN acc.states
       THEN AnimateLoopOld(acc, i + 1, now)
       ELSE LET r == AnimateOneOld(acc.states[IdOrder[i]], now, 0)
            IN AnimateLoopOld([states |-> [acc.states EXCEPT ![IdOrder[i]] = r.state],
                               result |-> Append(acc.result, r.out)],
                              i + 1, now)

\* The frame callback animate (lines 379-431).
AnimateOld(h, now) ==
  /\ variant = "older"
  /\ h \in rafPending
  /\ LET acc == AnimateLoopOld([states |-> trainStates, result |-> <<>>], 1, now)
     IN /\ trainStates' = acc.states
        /\ positions' = acc.result
  /\ clock' = now
  /\ rafCount' = rafCount + 1
  /\ animationRef' = rafCount + 1
  /\ rafPending' = (rafPending \ {h}) \cup {rafCount + 1}
  /\ lastOp' = [op |-> "animate", now |-> now, deltaTime |-> 0]
  /\ UNCHANGED serverVars
  /\ UNCHANGED <<variant, lineSegments, lastFrameTime, mounted>>

----------------------------------------------------------------------------
(* The hook driven by snapshot batches and frames *)

MaxFrames == 2
MaxSeconds == 14

\* The track geometry the hook runs on: one polyline on the Victoria line,
\* none on the Northern line.
HookIndex == [Victoria |-> << <<<<0, 0>>, <<3000, 4000>>, <<6000, 0>>>> >>]

\* The stations each vehicle reports from ("Nowhere" is in no dataset).
StationsOf(id) ==
  IF id = "victoria-201" THEN {"Brixton", "Stockwell", "Nowhere"}
  ELSE {"Brixton"}
\* The times to station (seconds) a vehicle reports for a station.
TimesToStation(id, s) ==
  IF id = "victoria-201" /\ s = "Brixton" THEN {60, 120} ELSE {60}

\* The line id is the prefix of the vehicle id (`${lineId}-${vehicleId}`).
LineIdOf(id) == IF id = "victoria-201" THEN "victoria" ELSE "northern"

Train(id, s, t) ==
  [id |-> id, lineId |-> LineIdOf(id), lineName |-> getLineDisplayName(LineIdOf(id)),
   currentStation |-> s, timeToStation |-> t]

TrainsOf(id) ==
  UNION {{Train(id, s, t) : t \in TimesToStation(id, s)} : s \in StationsOf(id)}

RECURSIVE BatchesFrom(_)
BatchesFrom(i) ==
  IF i > Len(IdOrder) THEN {<<>>}
  ELSE LET rest == BatchesFrom(i + 1)
       IN rest \cup {<<t>> \o r : t \in TrainsOf(IdOrder[i]), r \in rest}

\* The snapshot batches: arrays of trains with distinct ids (the API
\* deduplicates by id).
Batches == BatchesFrom(1)

FrameDelays == {16, 7000}
IngestDelays == {0}

EmptyMap == [k \in {} |-> Null]

\* The server as it starts: the development server, nothing cached, no
\* request received.
ServerIdle ==
  /\ deployment = [kind |-> "plugin", apiKey |-> FALSE]
  /\ cache = <<>>
  /\ inflight = {}
  /\ rounds = <<>>
  /\ requests = 0
  /\ response = <<>>

InitHook ==
  /\ trainStates = EmptyMap
  /\ positions = <<>>
  /\ lastFrameTime = 0
  /\ clock = 0
  /\ animationRef = 1
  /\ rafPending = {1}
  /\ rafCount = 1
  /\ mounted = TRUE
  /\ lastOp = [op |-> "init"]
  /\ ServerIdle

Init ==
  /\ variant = "track"
  /\ lineSegments = HookIndex
  /\ InitHook

Next ==
  \/ \E trains \in Batches, d \in IngestDelays :
       clock + d <= MaxSeconds * 1000 /\ Ingest(trains, clock + d)
  \/ \E h \in rafPending, d \in FrameDelays :
       rafCount <= MaxFrames /\ clock + d <= MaxSeconds * 1000 /\ Animate(h, clock + d)

Spec == Init /\ [][Next]_vars

----------------------------------------------------------------------------
(* One vehicle polled every 15 seconds and rendered twice a second, under
   either variant of the hook *)

MaxTrailSeconds == 45

TrailBatches ==
  {<<>>} \cup {<<Train("victoria-201", s, 60)>> : s \in {"Brixton", "Stockwell"}}

PollDelay == 15 * 1000
TrailFrameDelay == 1000 \div 2

InitTrail ==
  /\ variant \in {"track", "older"}
  /\ lineSegments = HookIndex
  /\ InitHook

NextTrail ==
  \/ \E trains \in TrailBatches :
       clock + PollDelay <= MaxTrailSeconds * 1000 /\ Ingest(trains, clock + PollDelay)
  \/ \E trains \in TrailBatches :
       clock + PollDelay <= MaxTrailSeconds * 1000 /\ IngestOld(trains, clock + PollDelay)
  \/ \E h \in rafPending :
       clock + TrailFrameDelay <= MaxTrailSeconds * 1000 /\ Animate(h, clock + TrailFrameDelay)
  \/ \E h \in rafPending :
       clock + TrailFrameDelay <= MaxTrailSeconds * 1000 /\ AnimateOld(h, clock + TrailFrameDelay)

SpecTrail == InitTrail /\ [][NextTrail]_vars

----------------------------------------------------------------------------
(* findTrackPath as a function of the geometry index and its arguments *)

\* The total number of vertices of the polylines registered under the line.
MaxVertices == 5

GeoPoints == {<<0, 0>>, <<2, 0>>, <<0, 1>>}
QueryPoints == GeoPoints \cup {<<2, 1>>, <<1, 0>>}

RECURSIVE PolylinesOfLen(_)
PolylinesOfLen(n) ==
  IF n = 0 THEN {<<>>}
  ELSE {Append(q, p) : q \in PolylinesOfLen(n - 1), p \in GeoPoints}

RECURSIVE SegmentLists(_)
\* The lists of polylines (of at least 2 vertices each, as
\* initializeLineSegments keeps them) with at most budget vertices in all.
SegmentLists(budget) ==
  {<<>>} \cup UNION {{<<p>> \o rest : p \in PolylinesOfLen(n), rest \in SegmentLists(budget - n)}
                     : n \in 2..budget}

GeoIndexes == {[Victoria |-> segs] : segs \in SegmentLists(MaxVertices) \ {<<>>}}

InitGeo ==
  /\ variant = "track"
  /\ lineSegments \in GeoIndexes
  /\ InitHook

\* The indexed polyline after an extraction that reverses it in place.
CoordsAfterExtractInPlace(coords, fromIdx, toIdx) ==
  IF fromIdx > toIdx THEN Reverse(coords) ELSE coords

\* The indexed polyline bestSegment.coordinates after lines 96-105:
\* slice() returns a new array and reverse() reverses that new array, so
\* the polyline itself is not written.
CoordsAfterExtract(coords, fromIdx, toIdx) == coords

\* The geometry index after findTrackPath(from, to, lineName).
IndexAfterFind(index, from, to, lineName) ==
  IF lineName \notin DOMAIN index \/ Len(index[lineName]) = 0 THEN index
  ELSE LET best == BestSegment(index[lineName], from, to)
       IN IF best.seg = 0 THEN index
          ELSE [index EXCEPT ![lineName][best.seg] =
                  CoordsAfterExtract(index[lineName][best.seg], best.fromIdx, best.toIdx)]

\* One call of findTrackPath on the loaded index; the index is only read.
CallFindTrackPath(from, to, lineName) ==
  /\ lastOp.op = "init"
  /\ lastOp' = [op |-> "findTrackPath", from |-> from, to |-> to, lineName |-> lineName,
                result |-> findTrackPath(from, to, lineName)]
  /\ lineSegments' = IndexAfterFind(lineSegments, from, to, lineName)
  /\ UNCHANGED serverVars
  /\ UNCHANGED <<variant, trainStates, positions, lastFrameTime, clock,
                 animationRef, rafPending, rafCount, mounted>>

\* A second call with the two coordinates of the first call swapped; `first`
\* keeps the result of the first call.
CallFindTrackPathSwapped ==
  /\ lastOp.op = "findTrackPath"
  /\ lastOp' = [op |-> "findTrackPathSwapped", from |-> lastOp.to, to |-> lastOp.from,
                lineName |-> lastOp.lineName, first |-> lastOp.result,
                result |-> findTrackPath(lastOp.to, lastOp.from, lastOp.lineName)]
  /\ lineSegments' = IndexAfterFind(lineSegments, lastOp.to, lastOp.from, lastOp.lineName)
  /\ UNCHANGED serverVars
  /\ UNCHANGED <<variant, trainStates, positions, lastFrameTime, clock,
                 animationRef, rafPending, rafCount, mounted>>

NextGeo ==
  \/ \E from \in QueryPoints, to \in QueryPoints : CallFindTrackPath(from, to, "Victoria")
  \/ \E from \in QueryPoints, to \in QueryPoints : CallFindTrackPath(from, to, "Northern")
  \/ CallFindTrackPathSwapped

SpecGeo == InitGeo /\ [][NextGeo]_vars

----------------------------------------------------------------------------
(* One vehicle of the track-path variant, polled on every tenth second and
   rendered twice a second *)

MaxRouteSeconds == 20

\* refetchInterval of the 10-second polling hook.
RoutePollDelay == 10 * 1000

InitRoute ==
  /\ variant = "track"
  /\ lineSegments = HookIndex
  /\ InitHook

\* A batch arrives when the clock is a multiple of the polling interval, once;
\* frames advance the clock.
NextRoute ==
  \/ \E trains \in TrailBatches :
       clock % RoutePollDelay = 0 /\ ~(lastOp.op = "ingest") /\ Ingest(trains, clock)
  \/ \E h \in rafPending :
       clock + TrailFrameDelay <= MaxRouteSeconds * 1000
         /\ Animate(h, clock + TrailFrameDelay)

SpecRoute == InitRoute /\ [][NextRoute]_vars

----------------------------------------------------------------------------
(* interpolateAlongPath as a function of a path and a progress *)

MaxPathLen == 3

\* The vertices of the sampled paths (their mutual distances are whole).
SamplePoints == {<<0, 0>>, <<3000, 4000>>, <<6000, 0>>}

\* The progress values of the calls, in 1/10000 (below 0 and above 1 too).
SampleProgress == {-5000, 0, 1, 2500, 5000, 6250, 9999, 10000, 15000}

RECURSIVE PathsOfLen(_)
PathsOfLen(n) ==
  IF n = 0 THEN {<<>>}
  ELSE {Append(q, p) : q \in PathsOfLen(n - 1), p \in SamplePoints}

SamplePaths == UNION {PathsOfLen(n) : n \in 0..MaxPathLen}

InitSample ==
  /\ variant = "track"
  /\ lineSegments = HookIndex
  /\ trainStates = EmptyMap
  /\ positions = <<>>
  /\ lastFrameTime = 0
  /\ clock = 0
  /\ animationRef = 1
  /\ rafPending = {1}
  /\ rafCount = 1
  /\ mounted = TRUE
  /\ \E path \in SamplePaths : lastOp = [op |-> "path", path |-> path]
  /\ ServerIdle

\* One call of interpolateAlongPath on the path drawn at the start.
CallInterpolateAlongPath(progress) ==
  /\ lastOp.op \in {"path", "interpolateAlongPath"}
  /\ lastOp' = [op |-> "interpolateAlongPath", path |-> lastOp.path,
                progress |-> progress,
                result |-> interpolateAlongPath(lastOp.path, progress)]
  /\ UNCHANGED serverVars
  /\ UNCHANGED <<variant, lineSegments, trainStates, positions, lastFrameTime, clock,
                 animationRef, rafPending, rafCount, mounted>>

NextSample == \E progress \in SampleProgress : CallInterpolateAlongPath(progress)

SpecSample == InitSample /\ [][NextSample]_vars

----------------------------------------------------------------------------
(* The hook until its animation effect is cleaned up *)

InitLife == Init

\* Batches arrive and frames fire as in Spec, and the component may unmount
\* at any point between two callbacks.
NextLife ==
  \/ \E trains \in Batches, d \in IngestDelays :
       clock + d <= MaxSeconds * 1000 /\ Ingest(trains, clock + d)
  \/ \E h \in rafPending, d \in FrameDelays :
       rafCount <= MaxFrames /\ clock + d <= MaxSeconds * 1000 /\ Animate(h, clock + d)
  \/ Cleanup

SpecLife == InitLife /\ [][NextLife]_vars

----------------------------------------------------------------------------
(* Either variant with the trails read between callbacks *)

MaxViewSeconds == 12

\* One vehicle that changes station and one that never moves.
ViewBatches ==
  {<<>>}
  \cup {<<Train("victoria-201", s, 60)>> : s \in {"Brixton", "Stockwell"}}
  \cup {<<Train("victoria-201", s, 60), Train("northern-105", "Brixton", 60)>> :
          s \in {"Brixton", "Stockwell"}}

InitView == InitTrail

NextView ==
  \/ \E trains \in ViewBatches :
       clock % RoutePollDelay = 0 /\ ~(lastOp.op = "ingest") /\ Ingest(trains, clock)
  \/ \E trains \in ViewBatches :
       clock % RoutePollDelay = 0 /\ ~(lastOp.op = "ingest") /\ IngestOld(trains, clock)
  \/ \E h \in rafPending :
       clock + TrailFrameDelay <= MaxViewSeconds * 1000
         /\ Animate(h, clock + TrailFrameDelay)
  \/ \E h \in rafPending :
       clock + TrailFrameDelay <= MaxViewSeconds * 1000
         /\ AnimateOld(h, clock + TrailFrameDelay)
  \/ CallGetTrails

SpecView == InitView /\ [][NextView]_vars

----------------------------------------------------------------------------
(* A path resolved on a line of one polyline and then sampled *)

\* Coordinates of this scenario are in units of 1e-4 degree: stations
\* A = (0,0) and B = (1,0).
StationA == <<0, 0>>
StationB == <<10000, 0>>

\* The middle vertex of the polyline: (0.5,0.1), and two others that make
\* the two segments differ in length.
ScenarioMiddles == {<<5000, 1000>>, <<2000, 1000>>, <<8000, 3000>>}

ScenarioPolyline(m) == <<StationA, m, StationB>>

ScenarioQueries == {StationA, StationB, <<5000, 0>>}

InitScenario ==
  /\ variant = "track"
  /\ lineSegments \in {[Victoria |-> <<ScenarioPolyline(m)>>] : m \in ScenarioMiddles}
  /\ InitHook

\* interpolateAlongPath on the path the preceding findTrackPath returned.
CallInterpolateResolved(progress) ==
  /\ lastOp.op = "findTrackPath"
  /\ lastOp.result # Null
  /\ lastOp' = [op |-> "interpolateResolved", from |-> lastOp.from, to |-> lastOp.to,
                lineName |-> lastOp.lineName, path |-> lastOp.result,
                progress |-> progress,
                result |-> interpolateAlongPath(lastOp.result, progress)]
  /\ UNCHANGED serverVars
  /\ UNCHANGED <<variant, lineSegments, trainStates, positions, lastFrameTime, clock,
                 animationRef, rafPending, rafCount, mounted>>

NextScenario ==
  \/ \E from \in ScenarioQueries, to \in ScenarioQueries :
       CallFindTrackPath(from, to, "Victoria")
  \/ \E progress \in SampleProgress : CallInterpolateResolved(progress)

SpecScenario == InitScenario /\ [][NextScenario]_vars

----------------------------------------------------------------------------
(* smoothDamp stepped from chosen values *)

MaxDampSteps == 3

\* One coordinate (units of 1e-6 degree), the velocities carried into a step
\* (units per second) and the frame times (ms) the steps are taken with.
DampValues == {-1000, 0, 400, 1000}
DampVelocities == {-50000, -2000, 0, 2000, 50000}
DampDeltas == {16, DELTA_CAP}

InitDamp ==
  /\ variant = "track"
  /\ lineSegments = HookIndex
  /\ InitHook

\* A first step from a chosen value, target and velocity.
CallSmoothDamp(current, target, velocity, deltaTime) ==
  /\ lastOp.op = "init"
  /\ lastOp' = [op |-> "smoothDamp", step |-> 1, current |-> current,
                target |-> target, velocity |-> velocity, deltaTime |-> deltaTime,
                result |-> smoothDamp(current, target, velocity, SMOOTH_TIME, deltaTime)]
  /\ UNCHANGED serverVars
  /\ UNCHANGED <<variant, lineSegments, trainStates, positions, lastFrameTime, clock,
                 animationRef, rafPending, rafCount, mounted>>

\* The next tick's step: from the value and the velocity the last step
\* returned (lines 207-214), towards a target that may have moved.
CallSmoothDampNext(target, deltaTime) ==
  /\ lastOp.op = "smoothDamp"
  /\ lastOp.step < MaxDampSteps
  /\ lastOp' = [op |-> "smoothDamp", step |-> lastOp.step + 1,
                current |-> lastOp.result.value,
                target |-> target, velocity |-> lastOp.result.velocity,
                deltaTime |-> deltaTime,
                result |-> smoothDamp(lastOp.result.value, target,
                                      lastOp.result.velocity, SMOOTH_TIME, deltaTime)]
  /\ UNCHANGED serverVars
  /\ UNCHANGED <<variant, lineSegments, trainStates, positions, lastFrameTime, clock,
                 animationRef, rafPending, rafCount, mounted>>

NextDamp ==
  \/ \E current \in DampValues, target \in DampValues, velocity \in DampVelocities,
        deltaTime \in DampDeltas : CallSmoothDamp(current, target, velocity, deltaTime)
  \/ \E target \in DampValues, deltaTime \in DampDeltas :
       CallSmoothDampNext(target, deltaTime)

SpecDamp == InitDamp /\ [][NextDamp]_vars

----------------------------------------------------------------------------
(* The hook under a wall clock that can be set back *)

MaxClockFrames == 3
MaxClockSeconds == 11

\* Date.now() is the wall clock: between two callbacks it advances, or is
\* set back by an adjustment of the system time (here by 5 s, never to
\* before the last frame).
ClockIngestDelays == {0, 5000}
ClockFrameDelays == {-5000, 16}

InitClock ==
  /\ variant = "track"
  /\ lineSegments = HookIndex
  /\ InitHook

NextClock ==
  \/ \E trains \in TrailBatches, d \in ClockIngestDelays :
       /\ clock + d <= MaxClockSeconds * 1000
       /\ ~(lastOp.op = "ingest")
       /\ Ingest(trains, clock + d)
  \/ \E h \in rafPending, d \in ClockFrameDelays :
       /\ rafCount <= MaxClockFrames
       /\ clock + d >= lastFrameTime
       /\ clock + d <= MaxClockSeconds * 1000
       /\ Animate(h, clock + d)

SpecClock == InitClock /\ [][NextClock]_vars

----------------------------------------------------------------------------
(* The older variant over more than its grace period *)

MaxGraceSeconds == 90

\* A batch arrives at every polling instant and a frame fires once per
\* polling interval.
InitGrace ==
  /\ variant = "older"
  /\ lineSegments = HookIndex
  /\ InitHook

NextGrace ==
  \/ \E trains \in ViewBatches :
       clock % PollDelay = 0 /\ ~(lastOp.op = "ingest") /\ IngestOld(trains, clock)
  \/ \E h \in rafPending :
       clock + PollDelay <= MaxGraceSeconds * 1000 /\ AnimateOld(h, clock + PollDelay)

SpecGrace == InitGrace /\ [][NextGrace]_vars

----------------------------------------------------------------------------
(* The trains API: fetchLineData (part_006 lines 62-103, api/trains.ts
   lines 55-92) *)

ARRIVAL_HORIZON == 300

LINE_DISPLAY_NAMES == [victoria |-> "Victoria", northern |-> "Northern"]

\* (arrival.stationName || 'Unknown').replace(' Underground Station', '')
StationNameOf(stationName) ==
  IF stationName = "" THEN "Unknown"
  ELSE IF stationName = "Brixton Underground Station" THEN "Brixton"
  ELSE IF stationName = "Stockwell Underground Station" THEN "Stockwell"
  ELSE stationName

\* The train pushed for an arrival (lines 85-95), with the fields of the
\* model's trains.
TrainOfArrival(lineId, arrival) ==
  [id |-> lineId \o "-" \o arrival.vehicleId,
   lineId |-> lineId,
   lineName |-> IF lineId \in DOMAIN LINE_DISPLAY_NAMES
                THEN LINE_DISPLAY_NAMES[lineId] ELSE arrival.lineName,
   currentStation |-> StationNameOf(arrival.stationName),
   timeToStation |-> arrival.timeToStation]

RECURSIVE FetchLoop(_, _, _, _)
\* The loop over the arrivals (lines 77-96): acc.trains the trains pushed,
\* acc.seenVehicles the vehicle ids met so far.
FetchLoop(acc, lineId, arrivals, i) ==
  IF i > Len(arrivals) THEN acc
  ELSE IF arrivals[i].vehicleId \in acc.seenVehicles
       THEN FetchLoop(acc, lineId, arrivals, i + 1)
       ELSE LET seen == acc.seenVehicles \cup {arrivals[i].vehicleId}
            IN IF arrivals[i].timeToStation > ARRIVAL_HORIZON
               THEN FetchLoop([acc EXCEPT !.seenVehicles = seen], lineId, arrivals, i + 1)
               ELSE FetchLoop([trains |-> Append(acc.trains,
                                                 TrainOfArrival(lineId, arrivals[i])),
                               seenVehicles |-> seen],
                              lineId, arrivals, i + 1)

\* fetchLineData on a successful response with the given arrivals.
fetchLineData(lineId, arrivals) ==
  FetchLoop([trains |-> <<>>, seenVehicles |-> {}], lineId, arrivals, 1).trains

MaxArrivals == 3

\* The arrivals the upstream API can return for a line: predictions of a
\* vehicle at several stations, in no particular order.
Arrivals ==
  {[vehicleId |-> v, stationName |-> s, lineName |-> "Victoria", timeToStation |-> t] :
     v \in {"201", "105"},
     s \in {"Brixton Underground Station", "Stockwell"},
     t \in {60, 200, 400}}

RECURSIVE ArrivalLists(_)
ArrivalLists(n) ==
  IF n = 0 THEN {<<>>}
  ELSE LET shorter == ArrivalLists(n - 1)
       IN shorter \cup {Append(s, a) : s \in {x \in shorter : Len(x) = n - 1}, a \in Arrivals}

InitFetch ==
  /\ variant = "track"
  /\ lineSegments = HookIndex
  /\ InitHook

CallFetchLineData(lineId, arrivals) ==
  /\ lastOp.op = "init"
  /\ lastOp' = [op |-> "fetchLineData", lineId |-> lineId, arrivals |-> arrivals,
                result |-> fetchLineData(lineId, arrivals)]
  /\ UNCHANGED serverVars
  /\ UNCHANGED <<variant, lineSegments, trainStates, positions, lastFrameTime, clock,
                 animationRef, rafPending, rafCount, mounted>>

NextFetch ==
  \E lineId \in {"victoria"}, arrivals \in ArrivalLists(MaxArrivals) :
    CallFetchLineData(lineId, arrivals)

SpecFetch == InitFetch /\ [][NextFetch]_vars

----------------------------------------------------------------------------
(* The /api/trains server: the middleware of the development server
   (part_006 lines 105-152) and the deployed handler (part_007 lines
   131-189) *)

CACHE_TTL_PLUGIN == 10000
CACHE_TTL_HANDLER == 15000

\* CACHE_TTL of the handler that runs.
CACHE_TTL == IF deployment.kind = "plugin" THEN CACHE_TTL_PLUGIN ELSE CACHE_TTL_HANDLER

RECURSIVE Flat(_)
\* results.flat()
Flat(results) ==
  IF Len(results) = 0 THEN <<>> ELSE Head(results) \o Flat(Tail(results))

RECURSIVE UniqueFrom(_, _)
\* Array.from(new Map(allTrains.map(t => [t.id, t])).values()): one entry
\* per id, at the place of the first train with the id and with the value
\* of the last one.
UniqueFrom(allTrains, i) ==
  IF i > Len(allTrains) THEN <<>>
  ELSE IF \E j \in 1..(i - 1) : allTrains[j].id = allTrains[i].id
       THEN UniqueFrom(allTrains, i + 1)
       ELSE LET last == CHOOSE j \in i..Len(allTrains) :
                          /\ allTrains[j].id = allTrains[i].id
                          /\ \A k \in (j + 1)..Len(allTrains) :
                               allTrains[k].id # allTrains[i].id
            IN <<allTrains[last]>> \o UniqueFrom(allTrains, i + 1)

uniqueTrains(results) == UniqueFrom(Flat(results), 1)

\* The request handling with a cache that is still served at the age of
\* exactly CACHE_TTL.
ReceiveInclusive(method, now) ==
  /\ clock' = now
  /\ lastOp' = [op |-> "request", method |-> method, now |-> now]
  /\ requests' = requests + 1
  /\ IF deployment.kind = "handler" /\ method = "OPTIONS"
     THEN /\ response' = [req |-> requests + 1, status |-> 200, body |-> Null]
          /\ UNCHANGED <<cache, inflight, rounds>>
     ELSE IF cache # Null /\ now - cache.timestamp <= CACHE_TTL
     THEN /\ response' = [req |-> requests + 1, status |-> 200, trains |-> cache.data,
                          timestamp |-> cache.timestamp, cached |-> TRUE]
          /\ UNCHANGED <<cache, inflight, rounds>>
     ELSE IF deployment.kind = "handler" /\ ~deployment.apiKey
     THEN /\ response' = [req |-> requests + 1, status |-> 500,
                          error |-> "TFL_API_KEY not configured",
                          trains |-> <<>>, timestamp |-> now]
          /\ UNCHANGED <<cache, inflight, rounds>>
     ELSE /\ inflight' = inflight \cup {[req |-> requests + 1, now |-> now]}
          /\ rounds' = Append(rounds, now)
          /\ UNCHANGED <<cache, response>>
  /\ UNCHANGED <<deployment>>
  /\ UNCHANGED hookVars

\* The response and the server state after the synchronous part of a request
\* that reads Date.now() = now (part_006 lines 118-133, part_007 lines
\* 145-172): answered at once, or suspended on the upstream fetches.
Receive(method, now) ==
  /\ clock' = now
  /\ lastOp' = [op |-> "request", method |-> method, now |-> now]
  /\ requests' = requests + 1
  /\ IF deployment.kind = "handler" /\ method = "OPTIONS"
     THEN /\ response' = [req |-> requests + 1, status |-> 200, body |-> Null]
          /\ UNCHANGED <<cache, inflight, rounds>>
     ELSE IF cache # Null /\ now - cache.timestamp < CACHE_TTL
     THEN /\ response' = [req |-> requests + 1, status |-> 200, trains |-> cache.data,
                          timestamp |-> cache.timestamp, cached |-> TRUE]
          /\ UNCHANGED <<cache, inflight, rounds>>
     ELSE IF deployment.kind = "handler" /\ ~deployment.apiKey
     THEN /\ response' = [req |-> requests + 1, status |-> 500,
                          error |-> "TFL_API_KEY not configured",
                          trains |-> <<>>, timestamp |-> now]
          /\ UNCHANGED <<cache, inflight, rounds>>
     ELSE /\ inflight' = inflight \cup {[req |-> requests + 1, now |-> now]}
          /\ rounds' = Append(rounds, now)
          /\ UNCHANGED <<cache, response>>
  /\ UNCHANGED <<deployment>>
  /\ UNCHANGED hookVars

\* The rest of a suspended request once all its fetchLineData calls have
\* resolved with `results` (part_006 lines 135-148, part_007 lines 175-188).
Complete(r, results) ==
  /\ r \in inflight
  /\ inflight' = inflight \ {r}
  /\ cache' = [data |-> uniqueTrains(results), timestamp |-> r.now]
  /\ response' = [req |-> r.req, status |-> 200, trains |-> uniqueTrains(results),
                  timestamp |-> r.now, cached |-> FALSE,
                  count |-> Len(uniqueTrains(results))]
  /\ lastOp' = [op |-> "complete", req |-> r.req, now |-> r.now, results |-> results]
  /\ UNCHANGED <<deployment, rounds, requests, clock>>
  /\ UNCHANGED hookVars

MaxRequests == 3
MaxServerSeconds == 30

\* The handler that runs and whether TFL_API_KEY is set (the development
\* server reads no key).
Deployments ==
  {[kind |-> "plugin", apiKey |-> FALSE],
   [kind |-> "handler", apiKey |-> TRUE],
   [kind |-> "handler", apiKey |-> FALSE]}

\* The time between two requests, in milliseconds.
RequestDelays == {0, 5000, 10000}

\* What the fetchLineData calls of one request resolve with: one array of
\* trains per line.
LineResults ==
  {<<a, b>> :
     a \in {<<>>, <<Train("victoria-201", "Brixton", 60)>>},
     b \in {<<>>, <<Train("victoria-201", "Stockwell", 60)>>}}

InitServer ==
  /\ variant = "track"
  /\ lineSegments = HookIndex
  /\ trainStates = EmptyMap
  /\ positions = <<>>
  /\ lastFrameTime = 0
  /\ clock = 0
  /\ animationRef = 1
  /\ rafPending = {1}
  /\ rafCount = 1
  /\ mounted = TRUE
  /\ lastOp = [op |-> "init"]
  /\ deployment \in Deployments
  /\ cache = Null
  /\ inflight = {}
  /\ rounds = <<>>
  /\ requests = 0
  /\ response = Null

NextServer ==
  \/ \E method \in {"GET", "OPTIONS"}, d \in RequestDelays :
       /\ requests < MaxRequests
       /\ clock + d <= MaxServerSeconds * 1000
       /\ deployment.kind = "plugin" => method = "GET"
       /\ Receive(method, clock + d)
  \/ \E r \in inflight, results \in LineResults : Complete(r, results)

SpecServer == InitServer /\ [][NextServer]_vars

----------------------------------------------------------------------------
(* Vocabulary of the properties *)

\* The kind of an operation record.
IsIngest(op) == op.op = "ingest"
IsAnimate(op) == op.op = "animate"

\* The coordinate a train of a batch resolves to (Null: lookup failure).
CoordsOf(train) == getStationCoordinates(train.currentStation)

StationCoords == {stationMap[n] : n \in DOMAIN stationMap}

\* The trains of batch b that begin a station-change transition on the
\* records m: known id, station found, coordinate different from current.
BeginsTransition(m, train) ==
  /\ train.id \in DOMAIN m
  /\ CoordsOf(train) # Null
  /\ CoordsOf(train) # m[train.id].current.position

\* Vertex i of polyline P is the first vertex at minimal distance from p.
IsNearest(P, i, p) ==
  /\ \A j \in 1..Len(P) : Dist2(P[i], p) <= Dist2(P[j], p)
  /\ \A j \in 1..(i - 1) : Dist2(P[j], p) > Dist2(P[i], p)

NearestIndex(P, p) == CHOOSE i \in 1..Len(P) : IsNearest(P, i, p)

\* The score of a polyline: the squared distances of its two nearest vertices.
ScoreOf(P, from, to) ==
  <<Dist2(P[NearestIndex(P, from)], from), Dist2(P[NearestIndex(P, to)], to)>>

\* Polyline k of segs has different nearest vertices for from and to.
Qualifies(segs, k, from, to) ==
  NearestIndex(segs[k], from) # NearestIndex(segs[k], to)

\* Polyline k is the qualifying polyline of lowest score, the first of them
\* when several have that score.
IsSelected(segs, k, from, to) ==
  /\ Qualifies(segs, k, from, to)
  /\ \A m \in 1..Len(segs) :
       (m # k /\ Qualifies(segs, m, from, to)) =>
         IF m < k
         THEN ScoreLess(ScoreOf(segs[k], from, to), ScoreOf(segs[m], from, to))
         ELSE ~ScoreLess(ScoreOf(segs[m], from, to), ScoreOf(segs[k], from, to))

----------------------------------------------------------------------------
(* Properties *)

\* The trains of the last batch, as a set.
BatchTrains(op) == {op.trains[i] : i \in 1..Len(op.trains)}

\* C1: when ingestion starts a new transition for a known vehicle, at any
\* point of the prior animation, the new previous.position is the record's
\* last rendered position at that moment (not the old current.position).
C1_NoBackwardJump ==
  [][IsIngest(lastOp') =>
       \A train \in BatchTrains(lastOp') :
         BeginsTransition(trainStates, train) =>
           /\ train.id \in DOMAIN trainStates'
           /\ trainStates'[train.id].previous # Null
           /\ trainStates'[train.id].previous.position
                = trainStates[train.id].lastInterpolatedPosition]_vars

\* A transition begun while the prior transition was under way: the new
\* previous position lies between the stations, and less than the animation
\* duration has passed since the prior transition began.
C1_Witness ==
  /\ IsIngest(lastOp)
  /\ \E id \in lastOp.resolved :
       /\ id \in DOMAIN trainStates
       /\ trainStates[id].current.timestamp = lastOp.now
       /\ trainStates[id].previous.position \notin StationCoords
       /\ lastOp.now - trainStates[id].previous.timestamp < ANIMATION_DURATION
       /\ lastOp.now - trainStates[id].previous.timestamp > 0

\* C2: the smoothing velocity right after a station-change transition
\* equals the velocity right before it; ingestion never resets it.
C2_VelocityCarryOver ==
  [][IsIngest(lastOp') =>
       \A train \in BatchTrains(lastOp') :
         BeginsTransition(trainStates, train) =>
           /\ train.id \in DOMAIN trainStates'
           /\ trainStates'[train.id].velocity = trainStates[train.id].velocity]_vars

\* A transition just begun for a vehicle whose velocity is not zero.
C2_Witness ==
  /\ IsIngest(lastOp)
  /\ \E id \in lastOp.resolved :
       /\ id \in DOMAIN trainStates
       /\ trainStates[id].velocity # <<0, 0>>
       /\ trainStates[id].current.timestamp = lastOp.now

C4_EvictionImmediate ==
  [][(IsIngest(lastOp') /\ variant = "track") =>
       \A id \in DOMAIN trainStates :
         id \notin currentIds(lastOp'.trains) => id \notin DOMAIN trainStates']_vars

\* An ingestion has just removed a vehicle that the last frame rendered
\* between two stations.
C4_Witness ==
  /\ IsIngest(lastOp)
  /\ variant = "track"
  /\ \E n \in 1..Len(positions) :
       /\ positions[n].train.id \notin currentIds(lastOp.trains)
       /\ positions[n].train.id \notin DOMAIN trainStates
       /\ positions[n].position \notin StationCoords

\* C5 as stated: after every ingestion the ids of the records are exactly
\* the ids of the batch.
C5_IdsEqualBatch ==
  IsIngest(lastOp) => DOMAIN trainStates = currentIds(lastOp.trains)

\* C5 amended: after every ingestion the store holds a record for exactly
\* the ids of the batch whose station resolved or that had a record already,
\* and none for any other id (an id of the batch seen for the first time at
\* an unresolvable station gets no record).
C5_IdsResolvedOrKnown ==
  [][IsIngest(lastOp') =>
       DOMAIN trainStates'
         = {train.id : train \in {t \in BatchTrains(lastOp') :
                                    CoordsOf(t) # Null \/ t.id \in DOMAIN trainStates}}]_vars

\* An ingestion whose batch names a vehicle without a record (lookup
\* failure on first sighting) next to a vehicle with one.
C5_Witness ==
  /\ IsIngest(lastOp)
  /\ \E t \in BatchTrains(lastOp) : t.id \notin DOMAIN trainStates /\ CoordsOf(t) = Null
  /\ \E t \in BatchTrains(lastOp) : t.id \in DOMAIN trainStates

\* C6: a vehicle of the batch whose station lookup fails is skipped: its
\* record, if any, is unchanged and stays; none is created; the other
\* vehicles of the batch are ingested as usual.
C6_LookupFailureSkips ==
  [][IsIngest(lastOp') =>
       \A train \in BatchTrains(lastOp') :
         IF CoordsOf(train) = Null
         THEN IF train.id \in DOMAIN trainStates
              THEN /\ train.id \in DOMAIN trainStates'
                   /\ trainStates'[train.id] = trainStates[train.id]
              ELSE train.id \notin DOMAIN trainStates'
         ELSE /\ train.id \in DOMAIN trainStates'
              /\ trainStates'[train.id].train = train
              /\ trainStates'[train.id].current.position = CoordsOf(train)]_vars

\* An ingestion has skipped a vehicle that is in the middle of a transition
\* and has created the record of another one.
C6_Witness ==
  /\ IsIngest(lastOp)
  /\ \E t \in BatchTrains(lastOp) :
       /\ CoordsOf(t) = Null
       /\ t.id \in DOMAIN trainStates
       /\ trainStates[t.id].train # t
       /\ trainStates[t.id].previous # Null
       /\ trainStates[t.id].lastInterpolatedPosition \notin StationCoords
  /\ \E t \in BatchTrains(lastOp) :
       /\ CoordsOf(t) # Null
       /\ t.id \in DOMAIN trainStates
       /\ trainStates[t.id].previous = Null
       /\ trainStates[t.id].current.timestamp = lastOp.now

\* C7: a known vehicle re-reported at a station whose coordinate equals
\* current.position only has its vehicle metadata refreshed; keyframes, path,
\* trail, velocity and last rendered position are unchanged and the path
\* resolver is not called for it.
C7_SameStationRefresh ==
  [][IsIngest(lastOp') =>
       \A train \in BatchTrains(lastOp') :
         (/\ train.id \in DOMAIN trainStates
          /\ CoordsOf(train) # Null
          /\ CoordsOf(train) = trainStates[train.id].current.position) =>
           /\ train.id \in DOMAIN trainStates'
           /\ trainStates'[train.id] = [trainStates[train.id] EXCEPT !.train = train]
           /\ train.id \notin lastOp'.resolved]_vars

\* A vehicle in the middle of a transition has just been re-reported at its
\* target station with another time to station.
C7_Witness ==
  /\ IsIngest(lastOp)
  /\ \E t \in BatchTrains(lastOp) :
       /\ t.id \in DOMAIN trainStates
       /\ trainStates[t.id].train = t
       /\ t.timeToStation = 120
       /\ CoordsOf(t) = trainStates[t.id].current.position
       /\ trainStates[t.id].current.timestamp < lastOp.now
       /\ trainStates[t.id].previous # Null
       /\ trainStates[t.id].lastInterpolatedPosition \notin StationCoords
       /\ trainStates[t.id].velocity # <<0, 0>>

\* The maximal trail length of the mounted variant.
TrailMax == IF variant = "track" THEN TRAIL_LENGTH ELSE TRAIL_LENGTH_OLD

\* The position the last frame rendered for id.
Rendered(pos, id) == pos[CHOOSE n \in 1..Len(pos) : pos[n].train.id = id].position

\* C8: the trail of a record never exceeds the maximum of the variant (20,
\* older variant 15); an append to a full trail drops the oldest entry and
\* keeps the newest.
C8_TrailBound ==
  /\ [](\A id \in DOMAIN trainStates : Len(trainStates[id].trail) <= TrailMax)
  /\ [][\A id \in DOMAIN trainStates \cap DOMAIN trainStates' :
          (trainStates'[id].trail # trainStates[id].trail
           /\ Len(trainStates[id].trail) = TrailMax) =>
            /\ IsAnimate(lastOp')
            /\ trainStates'[id].trail
                 = Append(Tail(trainStates[id].trail), Rendered(positions', id))]_vars

\* A full trail whose seed (the station coordinate) has been dropped, right
\* after a frame appended the rendered position.
C8_Witness ==
  /\ IsAnimate(lastOp)
  /\ \E id \in DOMAIN trainStates :
       /\ Len(trainStates[id].trail) = TrailMax
       /\ trainStates[id].trail[1] \notin StationCoords
       /\ trainStates[id].trail[TrailMax] = Rendered(positions, id)

\* C9: (track-path variant) a tick appends the rendered position to the
\* trail only if its Manhattan distance from the last trail entry exceeds the
\* threshold, and otherwise leaves the trail unchanged; so adjacent trail
\* entries always differ by more than the threshold.
C9_TrailSpacing ==
  /\ [](variant = "track" =>
          \A id \in DOMAIN trainStates :
            \A k \in 1..(Len(trainStates[id].trail) - 1) :
              Manhattan(trainStates[id].trail[k], trainStates[id].trail[k + 1])
                > TRAIL_THRESHOLD)
  /\ [][(IsAnimate(lastOp') /\ variant = "track") =>
          \A id \in DOMAIN trainStates :
            LET trail == trainStates[id].trail
                position == Rendered(positions', id)
            IN IF trainStates[id].previous # Null
                  /\ Manhattan(position, trail[Len(trail)]) > TRAIL_THRESHOLD
               THEN /\ trainStates'[id].trail # trail
                    /\ trainStates'[id].trail[Len(trainStates'[id].trail)] = position
               ELSE trainStates'[id].trail = trail]_vars

\* A frame has rendered a vehicle in transition at a new position within
\* the threshold of the last trail entry, and has not appended it.
C9_Witness ==
  /\ IsAnimate(lastOp)
  /\ variant = "track"
  /\ \E id \in DOMAIN trainStates :
       LET trail == trainStates[id].trail
       IN /\ trainStates[id].previous # Null
          /\ Rendered(positions, id) = trainStates[id].lastInterpolatedPosition
          /\ Manhattan(Rendered(positions, id), trail[Len(trail)]) <= TRAIL_THRESHOLD
          /\ Manhattan(Rendered(positions, id), trail[Len(trail)]) > 0

\* No vertex of any polyline of segs is nearer to p than vertex i of P.
NearestOfLine(segs, P, i, p) ==
  \A m \in 1..Len(segs) : \A n \in 1..Len(segs[m]) :
    Dist2(P[i], p) <= Dist2(segs[m][n], p)

\* C10 as stated: for every polyline registered under the line and indices
\* i < j, a call with `from` nearest to vertex i and `to` nearest to vertex j
\* (no vertex of the line is nearer) returns polyline[i..j].
C10_AnyPolyline ==
  (lastOp.op = "findTrackPath" /\ lastOp.lineName \in DOMAIN lineSegments) =>
    \A k \in 1..Len(lineSegments[lastOp.lineName]) :
      LET segs == lineSegments[lastOp.lineName]
          P == segs[k]
          i == NearestIndex(P, lastOp.from)
          j == NearestIndex(P, lastOp.to)
      IN (/\ i < j
          /\ NearestOfLine(segs, P, i, lastOp.from)
          /\ NearestOfLine(segs, P, j, lastOp.to)) =>
           lastOp.result = SubSeq(P, i, j)

\* C10 amended: when the polyline is the one findTrackPath selects (the
\* lowest score among the polylines of the line whose two nearest vertices
\* differ, the first registered on equal scores; always so for the only
\* polyline of a line) and i < j, the returned path is polyline[i..j], from
\* polyline[i] to polyline[j].
C10_SelectedPolyline ==
  (lastOp.op = "findTrackPath" /\ lastOp.lineName \in DOMAIN lineSegments) =>
    \A k \in 1..Len(lineSegments[lastOp.lineName]) :
      LET P == lineSegments[lastOp.lineName][k]
          i == NearestIndex(P, lastOp.from)
          j == NearestIndex(P, lastOp.to)
      IN (i < j /\ IsSelected(lineSegments[lastOp.lineName], k, lastOp.from, lastOp.to)) =>
           /\ lastOp.result # Null
           /\ lastOp.result = [n \in 1..(j - i + 1) |-> P[i + n - 1]]
           /\ lastOp.result[1] = P[i]
           /\ lastOp.result[Len(lastOp.result)] = P[j]

\* A call on a line with two polylines where the second one is selected and
\* the path has an inner vertex.
C10_Witness ==
  /\ lastOp.op = "findTrackPath"
  /\ lastOp.lineName \in DOMAIN lineSegments
  /\ Len(lineSegments[lastOp.lineName]) = 2
  /\ Qualifies(lineSegments[lastOp.lineName], 1, lastOp.from, lastOp.to)
  /\ IsSelected(lineSegments[lastOp.lineName], 2, lastOp.from, lastOp.to)
  /\ NearestIndex(lineSegments[lastOp.lineName][2], lastOp.from) = 1
  /\ NearestIndex(lineSegments[lastOp.lineName][2], lastOp.to) = 3
  /\ lastOp.result = lineSegments[lastOp.lineName][2]

\* The polylines registered under the line of the last call (none: <<>>).
SegmentsOf(op) ==
  IF op.lineName \in DOMAIN lineSegments THEN lineSegments[op.lineName] ELSE <<>>

\* C11: findTrackPath(to, from, line) is the exact reverse sequence of
\* findTrackPath(from, to, line) and is null exactly when that one is, also
\* with several polylines under the line and with equal scores.
C11_ReverseSymmetry ==
  lastOp.op = "findTrackPathSwapped" =>
    /\ (lastOp.result = Null) <=> (lastOp.first = Null)
    /\ lastOp.first # Null =>
         /\ Len(lastOp.result) = Len(lastOp.first)
         /\ \A n \in 1..Len(lastOp.first) :
              lastOp.result[n] = lastOp.first[Len(lastOp.first) + 1 - n]

\* The swapped call on a line with two qualifying polylines of equal score,
\* returning a path that is not a palindrome.
C11_Witness ==
  /\ lastOp.op = "findTrackPathSwapped"
  /\ Len(SegmentsOf(lastOp)) = 2
  /\ Qualifies(SegmentsOf(lastOp), 1, lastOp.from, lastOp.to)
  /\ Qualifies(SegmentsOf(lastOp), 2, lastOp.from, lastOp.to)
  /\ ScoreOf(SegmentsOf(lastOp)[1], lastOp.from, lastOp.to)
       = ScoreOf(SegmentsOf(lastOp)[2], lastOp.from, lastOp.to)
  /\ lastOp.result # Null
  /\ Len(lastOp.result) >= 3
  /\ lastOp.result # lastOp.first

\* C12: findTrackPath returns null when on every polyline of the line the
\* vertex nearest to `from` and the vertex nearest to `to` have the same
\* index, and when no polyline is registered under the line name.
C12_DegenerateNull ==
  lastOp.op \in {"findTrackPath", "findTrackPathSwapped"} =>
    ((\A k \in 1..Len(SegmentsOf(lastOp)) :
        ~Qualifies(SegmentsOf(lastOp), k, lastOp.from, lastOp.to))
      => lastOp.result = Null)

\* A call with two different coordinates on a line with two polylines, on
\* both of which they have the same nearest vertex.
C12_Witness ==
  /\ lastOp.op = "findTrackPath"
  /\ lastOp.from # lastOp.to
  /\ Len(SegmentsOf(lastOp)) = 2
  /\ ~Qualifies(SegmentsOf(lastOp), 1, lastOp.from, lastOp.to)
  /\ ~Qualifies(SegmentsOf(lastOp), 2, lastOp.from, lastOp.to)
  /\ lastOp.result = Null

IsSample(op) == op.op = "interpolateAlongPath"

\* C13: for a path of at least one point, progress 0 and any progress below
\* yield the first point, progress 1 and any progress above yield the last
\* point, and a single-point path yields its point for every progress.
C13_SamplerBoundaries ==
  (IsSample(lastOp) /\ Len(lastOp.path) >= 1) =>
    /\ lastOp.progress <= 0 => lastOp.result = lastOp.path[1]
    /\ lastOp.progress >= 10000 => lastOp.result = lastOp.path[Len(lastOp.path)]
    /\ Len(lastOp.path) = 1 => lastOp.result = lastOp.path[1]

\* A call with progress above 1 on a path of three vertices that ends away
\* from where it starts.
C13_Witness ==
  /\ IsSample(lastOp)
  /\ Len(lastOp.path) = 3
  /\ lastOp.path[1] # lastOp.path[3]
  /\ lastOp.path[2] # lastOp.path[3]
  /\ lastOp.progress > 10000
  /\ lastOp.result = lastOp.path[3]

\* The consecutive points of the path are all distinct.
ConsecutiveDistinct(path) == \A i \in 1..(Len(path) - 1) : path[i] # path[i + 1]

RECURSIVE LengthBefore(_, _)
\* The length of the path from its first point to vertex i.
LengthBefore(path, i) ==
  IF i <= 1 THEN 0
  ELSE LengthBefore(path, i - 1) + ISqrt(Dist2(path[i - 1], path[i]))

\* The roundings of a sample: the progress within the segment and the two
\* coordinates, each less than one unit.
SampleTolerance == 1 + 1 + 1

\* Point r lies on segment i of the path, up to the roundings.
NearSegment(path, i, r) ==
  ISqrt(Dist2(path[i], r)) + ISqrt(Dist2(r, path[i + 1]))
    <= ISqrt(Dist2(path[i], path[i + 1])) + SampleTolerance

\* The distances from the first point to r measured along the path (several
\* when the path passes through r more than once).
ArcsOf(path, r) ==
  {LengthBefore(path, i) + ISqrt(Dist2(path[i], r)) :
     i \in {k \in 1..(Len(path) - 1) : NearSegment(path, k, r)}}

\* Arc a is progress t of the whole length of the path, up to the roundings.
ArcAtProgress(path, a, t) ==
  Abs(a * 10000 - t * LengthBefore(path, Len(path))) <= SampleTolerance * 10000

\* C14: on a path whose consecutive points are distinct, the sample at
\* progress t in [0,1] lies on the path at arc length t times the total
\* length, and the arc length of the samples does not decrease when t grows.
C14_SamplerArcLength ==
  /\ []((/\ IsSample(lastOp)
         /\ Len(lastOp.path) >= 2
         /\ ConsecutiveDistinct(lastOp.path)
         /\ lastOp.progress \in 0..10000) =>
          \E a \in ArcsOf(lastOp.path, lastOp.result) :
            ArcAtProgress(lastOp.path, a, lastOp.progress))
  /\ [][(/\ IsSample(lastOp) /\ IsSample(lastOp')
         /\ Len(lastOp.path) >= 2
         /\ ConsecutiveDistinct(lastOp.path)
         /\ lastOp.progress \in 0..10000 /\ lastOp'.progress \in 0..10000
         /\ lastOp.progress <= lastOp'.progress) =>
          \E a \in ArcsOf(lastOp.path, lastOp.result),
             b \in ArcsOf(lastOp'.path, lastOp'.result) :
            /\ a <= b
            /\ ArcAtProgress(lastOp.path, a, lastOp.progress)
            /\ ArcAtProgress(lastOp'.path, b, lastOp'.progress)]_vars

\* A sample inside the second segment of a path of three different vertices.
C14_Witness ==
  /\ IsSample(lastOp)
  /\ Len(lastOp.path) = 3
  /\ ConsecutiveDistinct(lastOp.path)
  /\ lastOp.path[1] # lastOp.path[3]
  /\ lastOp.progress = 6250
  /\ lastOp.result \notin SamplePoints
  /\ NearSegment(lastOp.path, 2, lastOp.result)
  /\ ~NearSegment(lastOp.path, 1, lastOp.result)

\* The ids the last frame rendered, and the heading it rendered for id.
RenderedIds(pos) == {pos[n].train.id : n \in 1..Len(pos)}
RenderedHeading(pos, id) == pos[CHOOSE n \in 1..Len(pos) : pos[n].train.id = id].heading

\* C15: a tick creates and deletes no record and leaves the current
\* keyframe, the previous keyframe and the resolved path (and the carried
\* train) of every record as they were; it writes only velocity, last
\* rendered position and trail.
C15_TickWritesRenderFields ==
  [][IsAnimate(lastOp') =>
       /\ DOMAIN trainStates' = DOMAIN trainStates
       /\ \A id \in DOMAIN trainStates :
            /\ trainStates'[id].current = trainStates[id].current
            /\ trainStates'[id].previous = trainStates[id].previous
            /\ trainStates'[id].trackPath = trainStates[id].trackPath
            /\ trainStates'[id].train = trainStates[id].train]_vars

\* A tick has just moved a vehicle in transition, next to an idle one: its
\* velocity, last rendered position and trail are written.
C15_Witness ==
  /\ IsAnimate(lastOp)
  /\ Cardinality(DOMAIN trainStates) = 2
  /\ \E id \in DOMAIN trainStates :
       /\ trainStates[id].previous # Null
       /\ trainStates[id].trackPath # Null
       /\ trainStates[id].velocity # <<0, 0>>
       /\ Len(trainStates[id].trail) >= 2
       /\ trainStates[id].lastInterpolatedPosition \notin StationCoords

\* C16: ingestion leaves the last rendered position of every record that
\* exists before and after it as it was, and a tick sets it to the position
\* it renders; so a tick starts from what the previous tick rendered.
C16_LastRenderedOnlyByTick ==
  [][/\ IsIngest(lastOp') =>
          \A id \in DOMAIN trainStates \cap DOMAIN trainStates' :
            trainStates'[id].lastInterpolatedPosition
              = trainStates[id].lastInterpolatedPosition
     /\ IsAnimate(lastOp') =>
          \A id \in DOMAIN trainStates' :
            trainStates'[id].lastInterpolatedPosition = Rendered(positions', id)]_vars

\* A transition has just begun for a vehicle rendered between two stations,
\* and its record holds the rendered position.
C16_Witness ==
  /\ IsIngest(lastOp)
  /\ \E id \in lastOp.resolved :
       /\ id \in DOMAIN trainStates
       /\ id \in RenderedIds(positions)
       /\ trainStates[id].current.timestamp = lastOp.now
       /\ trainStates[id].lastInterpolatedPosition = Rendered(positions, id)
       /\ Rendered(positions, id) \notin StationCoords
       /\ Rendered(positions, id) # trainStates[id].current.position

\* C17: the resolved path of a record changes only in an ingestion that
\* begins a station-change transition for its vehicle; ticks and
\* same-station ingestions keep the path resolved at the transition.
C17_PathOnlyOnTransition ==
  [][\A id \in DOMAIN trainStates \cap DOMAIN trainStates' :
       (variant = "track" /\ trainStates'[id].trackPath # trainStates[id].trackPath) =>
         /\ IsIngest(lastOp')
         /\ \E train \in BatchTrains(lastOp') :
              train.id = id /\ BeginsTransition(trainStates, train)]_vars

\* A same-station ingestion after the ticks of a transition: the record
\* still holds the path of three vertices resolved when the transition began.
C17_Witness ==
  /\ IsIngest(lastOp)
  /\ variant = "track"
  /\ \E t \in BatchTrains(lastOp) :
       /\ t.id \in DOMAIN trainStates
       /\ t.id \notin lastOp.resolved
       /\ CoordsOf(t) = trainStates[t.id].current.position
       /\ trainStates[t.id].trackPath # Null
       /\ Len(trainStates[t.id].trackPath) = 3
       /\ trainStates[t.id].lastInterpolatedPosition \notin StationCoords
       /\ trainStates[t.id].current.timestamp < lastOp.now

\* C18: the first sighting of a vehicle id whose station resolves creates
\* the record with previous = null, current = {coordinate, now}, the trail
\* of that one coordinate, zero velocity and no path.
C18_FirstSighting ==
  [][IsIngest(lastOp') =>
       \A train \in BatchTrains(lastOp') :
         (train.id \notin DOMAIN trainStates /\ CoordsOf(train) # Null) =>
           /\ train.id \in DOMAIN trainStates'
           /\ trainStates'[train.id].previous = Null
           /\ trainStates'[train.id].current
                = [position |-> CoordsOf(train), timestamp |-> lastOp'.now]
           /\ trainStates'[train.id].trail = <<CoordsOf(train)>>
           /\ trainStates'[train.id].velocity = <<0, 0>>
           /\ trainStates'[train.id].trackPath = Null
           /\ trainStates'[train.id].train = train
           /\ trainStates'[train.id].lastInterpolatedPosition = CoordsOf(train)]_vars

\* A vehicle no frame has rendered yet has its first record, created after
\* the start next to a vehicle that frames have rendered.
C18_Witness ==
  /\ IsIngest(lastOp)
  /\ lastOp.now > 0
  /\ positions # <<>>
  /\ \E t \in BatchTrains(lastOp) :
       /\ t.id \in DOMAIN trainStates
       /\ t.id \notin RenderedIds(positions)
       /\ trainStates[t.id].previous = Null
       /\ trainStates[t.id].current.timestamp = lastOp.now
       /\ trainStates[t.id].trail = <<CoordsOf(t)>>

\* C19: a tick renders a record without previous keyframe at exactly
\* current.position with heading 0, keeps its velocity zero and its trail
\* unchanged; the previous keyframe stays absent until an ingestion reports
\* another station coordinate for the vehicle.
C19_IdleRecord ==
  [][\A id \in DOMAIN trainStates \cap DOMAIN trainStates' :
       trainStates[id].previous = Null =>
         /\ IsAnimate(lastOp') =>
              /\ Rendered(positions', id) = trainStates[id].current.position
              /\ RenderedHeading(positions', id) = 0
              /\ trainStates[id].velocity = <<0, 0>>
              /\ trainStates'[id].velocity = <<0, 0>>
              /\ trainStates'[id].trail = trainStates[id].trail
         /\ trainStates'[id].previous # Null =>
              /\ IsIngest(lastOp')
              /\ \E train \in BatchTrains(lastOp') :
                   train.id = id /\ BeginsTransition(trainStates, train)]_vars

\* A record without previous keyframe rendered by a second frame, seven
\* seconds after it was created.
C19_Witness ==
  /\ IsAnimate(lastOp)
  /\ \E id \in DOMAIN trainStates :
       /\ trainStates[id].previous = Null
       /\ lastOp.now - trainStates[id].current.timestamp >= 7000
       /\ Rendered(positions, id) = trainStates[id].current.position
       /\ trainStates[id].trail = <<trainStates[id].current.position>>

\* The eased progress of a tick at `now` on a record (lines 168-170).
EasedProgress(state, now) ==
  LET elapsed == now - state.current.timestamp
  IN easeInOutQuad(IF elapsed >= ANIMATION_DURATION THEN 10000
                   ELSE (elapsed * 10000) \div ANIMATION_DURATION)

\* The record has a previous keyframe and no path of two points or more.
HasNoPath(state) ==
  /\ state.previous # Null
  /\ (state.trackPath = Null \/ Len(state.trackPath) < 2)

\* C20: when a transition has no path (the resolver returned null, or fewer
\* than 2 points), the target of every tick is the linear interpolation
\* between previous.position and current.position at the eased progress:
\* previous.position at progress 0, current.position at progress 1.
C20_StraightLineFallback ==
  [][IsAnimate(lastOp') =>
       \A id \in DOMAIN trainStates :
         HasNoPath(trainStates[id]) =>
           LET prev == trainStates[id].previous.position
               cur == trainStates[id].current.position
               progress == EasedProgress(trainStates[id], lastOp'.now)
           IN /\ id \in DOMAIN lastOp'.targets
              /\ lastOp'.targets[id]
                   = <<prev[1] + Quot((cur[1] - prev[1]) * progress, 10000),
                       prev[2] + Quot((cur[2] - prev[2]) * progress, 10000)>>
              /\ progress = 0 => lastOp'.targets[id] = prev
              /\ progress = 10000 => lastOp'.targets[id] = cur]_vars

\* A tick in the middle of a transition without path: the target is
\* strictly between the two keyframe positions.
C20_Witness ==
  /\ IsAnimate(lastOp)
  /\ variant = "track"
  /\ \E id \in DOMAIN trainStates :
       /\ HasNoPath(trainStates[id])
       /\ id \in DOMAIN lastOp.targets
       /\ trainStates[id].previous.position # trainStates[id].current.position
       /\ lastOp.now - trainStates[id].current.timestamp \in 1..(ANIMATION_DURATION - 1)
       /\ lastOp.targets[id] # trainStates[id].previous.position
       /\ lastOp.targets[id] # trainStates[id].current.position

\* The snapshots of pos that carry the id.
SnapshotsOf(pos, id) == {n \in 1..Len(pos) : pos[n].train.id = id}

\* The snapshot of pos that carries the id.
Snapshot(pos, id) == pos[CHOOSE n \in SnapshotsOf(pos, id) : TRUE]

\* The heading a tick at `now` renders for a record: 0 without a previous
\* keyframe, the bearing of the straight line between the keyframes without
\* a path (0 when they coincide), the bearing between the samples just
\* behind and just ahead of the eased progress with a path.
HeadingOf(state, now) ==
  IF state.previous = Null THEN 0
  ELSE IF HasNoPath(state)
       THEN IF state.previous.position = state.current.position THEN 0
            ELSE calculateHeading(state.previous.position, state.current.position)
       ELSE LET p == EasedProgress(state, now)
            IN calculateHeading(
                 interpolateAlongPath(state.trackPath, Max(0, p - 500)),
                 interpolateAlongPath(state.trackPath, Min(10000, p + 500)))

\* C21: every tick emits exactly one snapshot for every record of the store
\* and none for any other id; the snapshot carries the record's vehicle
\* metadata, the position the tick rendered for it and the heading the tick
\* computed for it.
C21_OneSnapshotPerRecord ==
  [][IsAnimate(lastOp') /\ variant = "track" =>
       /\ Len(positions') = Cardinality(DOMAIN trainStates)
       /\ RenderedIds(positions') = DOMAIN trainStates
       /\ \A id \in DOMAIN trainStates :
            /\ Cardinality(SnapshotsOf(positions', id)) = 1
            /\ Snapshot(positions', id).train = trainStates[id].train
            /\ Snapshot(positions', id).position
                 = trainStates'[id].lastInterpolatedPosition
            /\ Snapshot(positions', id).heading
                 = HeadingOf(trainStates[id], lastOp'.now)]_vars

\* A tick has rendered two records, one in transition with a non-zero
\* heading and one without a previous keyframe.
C21_Witness ==
  /\ IsAnimate(lastOp)
  /\ Cardinality(DOMAIN trainStates) = 2
  /\ Len(positions) = 2
  /\ \E id \in DOMAIN trainStates :
       /\ trainStates[id].previous # Null
       /\ Snapshot(positions, id).heading # 0
  /\ \E id \in DOMAIN trainStates : trainStates[id].previous = Null

\* C22: once the animation effect is cleaned up no frame callback remains
\* scheduled and no tick runs again, whether the cleanup comes before the
\* first tick or after any number of ticks; at most one frame callback is
\* outstanding at any time.
C22_StopIsFinal ==
  /\ [](~mounted => rafPending = {})
  /\ [](Cardinality(rafPending) <= 1)
  /\ [][~mounted => UNCHANGED <<trainStates, positions, rafCount, rafPending>>]_vars

\* The effect was cleaned up after at least one tick had rescheduled itself.
C22_Witness ==
  /\ ~mounted
  /\ rafCount > 1
  /\ animationRef = rafCount
  /\ trainStates # EmptyMap

\* The entries of a getTrails result that carry the id.
TrailEntries(result, id) == {n \in 1..Len(result) : result[n].id = id}

\* The minimum a trail must exceed to be returned: 2 points in the track
\* variant, 1 in the older variant.
TrailMinimum == IF variant = "track" THEN 2 ELSE 1

\* C23: getTrails returns exactly one entry for every record whose trail has
\* more points than the minimum of the variant and none for a record with a
\* shorter trail or for an unknown id; the coordinates of an entry are the
\* record's trail, in order, with the record's line id and name.
C23_TrailsByLength ==
  lastOp.op = "getTrails" =>
    /\ \A n \in 1..Len(lastOp.result) : lastOp.result[n].id \in DOMAIN trainStates
    /\ \A id \in DOMAIN trainStates :
         IF Len(trainStates[id].trail) > TrailMinimum
         THEN /\ Cardinality(TrailEntries(lastOp.result, id)) = 1
              /\ \A n \in TrailEntries(lastOp.result, id) :
                   /\ lastOp.result[n].coordinates = trainStates[id].trail
                   /\ lastOp.result[n].lineId = trainStates[id].train.lineId
                   /\ lastOp.result[n].lineName = trainStates[id].train.lineName
         ELSE TrailEntries(lastOp.result, id) = {}

\* The track variant has just returned the trail of a record with three
\* points or more and left out a record with a single point.
C23_Witness ==
  /\ lastOp.op = "getTrails"
  /\ variant = "track"
  /\ Len(lastOp.result) = 1
  /\ Len(lastOp.result[1].coordinates) >= 3
  /\ \E id \in DOMAIN trainStates : Len(trainStates[id].trail) = 1

\* The track variant leaves out a trail of exactly two points.
C23_WitnessTwoPoints ==
  /\ lastOp.op = "getTrails"
  /\ variant = "track"
  /\ lastOp.result = <<>>
  /\ \E id \in DOMAIN trainStates : Len(trainStates[id].trail) = 2

\* The older variant returns a trail of exactly two points, next to a record
\* with a single point that is left out.
C23_WitnessOld ==
  /\ lastOp.op = "getTrails"
  /\ variant = "older"
  /\ Len(lastOp.result) = 1
  /\ \E id \in DOMAIN trainStates : Len(trainStates[id].trail) = 2
  /\ \E id \in DOMAIN trainStates : Len(trainStates[id].trail) = 1

\* The last operation asked for the path from station A to station B on the
\* line whose only polyline is [(0,0),(0.5,0.1),(1,0)].
IsScenario(op) ==
  /\ op.op \in {"findTrackPath", "interpolateResolved"}
  /\ lineSegments = [Victoria |-> <<ScenarioPolyline(<<5000, 1000>>)>>]
  /\ op.from = StationA
  /\ op.to = StationB
  /\ op.lineName = "Victoria"

\* C24: with the single polyline [(0,0),(0.5,0.1),(1,0)] on the line,
\* findTrackPath((0,0),(1,0),line) returns exactly that polyline, and the
\* sample of that path at progress 0.5 is the point of the path at half its
\* total arc length.
C24_EndToEnd ==
  /\ (IsScenario(lastOp) /\ lastOp.op = "findTrackPath") =>
       lastOp.result = ScenarioPolyline(<<5000, 1000>>)
  /\ (IsScenario(lastOp) /\ lastOp.op = "interpolateResolved") =>
       /\ lastOp.path = ScenarioPolyline(<<5000, 1000>>)
       /\ lastOp.progress = 5000 =>
            \E a \in ArcsOf(lastOp.path, lastOp.result) :
              ArcAtProgress(lastOp.path, a, 5000)

\* The scenario's path has been sampled at progress 0.5: the two segments
\* are equally long, so the sample is the middle vertex.
C24_Witness ==
  /\ IsScenario(lastOp)
  /\ lastOp.op = "interpolateResolved"
  /\ lastOp.progress = 5000
  /\ lastOp.result = <<5000, 1000>>

\* The total length of the path.
TotalLength(path) == LengthBefore(path, Len(path))

\* The segments of the path at whose end the walk of the sampler has covered
\* the distance progress times the total length.
StopSegments(path, progress) ==
  {i \in 1..(Len(path) - 1) :
     LengthBefore(path, i + 1) * 10000 >= progress * TotalLength(path)}

\* The segment in which the walk stops (the first such segment).
StopSegment(path, progress) ==
  CHOOSE i \in StopSegments(path, progress) :
    \A k \in StopSegments(path, progress) : i <= k

\* Some segment of the path has length zero and some has not.
HasZeroAndNonZero(path) ==
  /\ \E i \in 1..(Len(path) - 1) : path[i] = path[i + 1]
  /\ \E i \in 1..(Len(path) - 1) : path[i] # path[i + 1]

\* C25: the sampler answers on degenerate geometry without dividing by zero:
\* an empty path yields (0,0); a path of total length zero yields its first
\* point; and on a path of positive length, zero-length segments included,
\* the segment whose length divides the remaining distance is never of
\* length zero, and the sample at any progress in [0,1] is a point of the
\* path.
C25_DegenerateGeometry ==
  IsSample(lastOp) =>
    /\ Len(lastOp.path) = 0 => lastOp.result = <<0, 0>>
    /\ (Len(lastOp.path) >= 1 /\ TotalLength(lastOp.path) = 0) =>
         lastOp.result = lastOp.path[1]
    /\ (Len(lastOp.path) >= 2 /\ TotalLength(lastOp.path) > 0
          /\ lastOp.progress \in 0..10000) =>
         /\ \E i \in 1..(Len(lastOp.path) - 1) :
              NearSegment(lastOp.path, i, lastOp.result)
         /\ lastOp.progress \in 1..9999 =>
              /\ StopSegments(lastOp.path, lastOp.progress) # {}
              /\ LET i == StopSegment(lastOp.path, lastOp.progress)
                 IN lastOp.path[i] # lastOp.path[i + 1]

\* A sample strictly inside a path that starts with a zero-length segment
\* away from the origin and goes on with a segment of positive length.
C25_Witness ==
  /\ IsSample(lastOp)
  /\ Len(lastOp.path) = 3
  /\ lastOp.path[1] = lastOp.path[2]
  /\ lastOp.path[1] # <<0, 0>>
  /\ lastOp.path[2] # lastOp.path[3]
  /\ lastOp.progress \in 1..9999
  /\ lastOp.result # lastOp.path[1]
  /\ lastOp.result # lastOp.path[3]

\* A sample at progress 0.5 of a path of two coinciding points away from the
\* origin: the first point.
C25_WitnessZeroLength ==
  /\ IsSample(lastOp)
  /\ Len(lastOp.path) = 2
  /\ lastOp.path[1] = lastOp.path[2]
  /\ lastOp.path[1] # <<0, 0>>
  /\ lastOp.progress = 5000
  /\ lastOp.result = lastOp.path[1]

\* The last operation is a smoothDamp step.
IsDamp(op) == op.op = "smoothDamp"

\* The value the damping formula gives for the step before any clamping.
UnclampedValue(op) ==
  LET omega == Quot(2000, SMOOTH_TIME)
      change == op.current - op.target
      temp == Quot((op.velocity + omega * change) * op.deltaTime, 1000)
  IN op.target + Quot((change + temp) * 10000, DampDenominator(omega * op.deltaTime))

\* The formula carries the value from its side of the target to the other.
Crosses(op) ==
  \/ op.current < op.target /\ UnclampedValue(op) > op.target
  \/ op.current > op.target /\ UnclampedValue(op) < op.target

\* C26: a smoothDamp step from a value below the target never returns a
\* value above it, and from a value above the target never one below it;
\* whenever the unclamped step would cross the target the step returns
\* exactly the target with velocity zero.
C26_NoOvershoot ==
  IsDamp(lastOp) =>
    /\ lastOp.current < lastOp.target => lastOp.result.value <= lastOp.target
    /\ lastOp.current > lastOp.target => lastOp.result.value >= lastOp.target
    /\ Crosses(lastOp) => lastOp.result = [value |-> lastOp.target, velocity |-> 0]

\* A step from below the target with a carried velocity that would take the
\* value beyond it: the step stops on the target.
C26_Witness ==
  /\ IsDamp(lastOp)
  /\ lastOp.current < lastOp.target
  /\ lastOp.velocity > 0
  /\ UnclampedValue(lastOp) > lastOp.target
  /\ lastOp.result = [value |-> lastOp.target, velocity |-> 0]

\* The same from above the target, in a step that follows another.
C26_WitnessFromAbove ==
  /\ IsDamp(lastOp)
  /\ lastOp.step > 1
  /\ lastOp.current > lastOp.target
  /\ UnclampedValue(lastOp) < lastOp.target
  /\ lastOp.result = [value |-> lastOp.target, velocity |-> 0]

\* C27: the raw time progress a tick feeds to the easing lies in [0,1] and so
\* does the eased progress, which is 0 at raw progress 0 and 1 at raw
\* progress 1, whatever the tick's clock reading is relative to the
\* record's current.timestamp.
C27_ProgressClamped ==
  IsAnimate(lastOp) =>
    \A id \in DOMAIN lastOp.progress :
      /\ lastOp.progress[id].raw \in 0..10000
      /\ lastOp.progress[id].eased \in 0..10000
      /\ lastOp.progress[id].raw = 0 => lastOp.progress[id].eased = 0
      /\ lastOp.progress[id].raw = 10000 => lastOp.progress[id].eased = 10000

\* C28: the delta a tick feeds to the smoothing never exceeds 0.1 s, however
\* long the gap since the previous tick, and every tick makes its own clock
\* reading the reference time of the next.
C28_DeltaCapped ==
  /\ [](IsAnimate(lastOp) => lastOp.deltaTime <= 100 /\ lastFrameTime = lastOp.now)
  /\ [][IsAnimate(lastOp') /\ variant = "track" =>
          /\ lastFrameTime' = lastOp'.now
          /\ lastOp'.deltaTime <= lastOp'.now - lastFrameTime
          /\ lastOp'.now - lastFrameTime <= 100 =>
               lastOp'.deltaTime = lastOp'.now - lastFrameTime]_vars

\* A tick seven seconds after the previous tick has smoothed a vehicle in
\* transition with a delta of 0.1 s.
C28_Witness ==
  /\ IsAnimate(lastOp)
  /\ rafCount > 2
  /\ lastOp.deltaTime = 100
  /\ lastFrameTime = lastOp.now
  /\ \E id \in DOMAIN trainStates :
       /\ trainStates[id].previous # Null
       /\ trainStates[id].velocity # <<0, 0>>

\* The vertices of P from index i to index j, in that direction.
PathOn(P, i, j) ==
  IF i <= j THEN [n \in 1..(j - i + 1) |-> P[i + n - 1]]
  ELSE [n \in 1..(i - j + 1) |-> P[i - n + 1]]

\* C29: when some polyline of the line has different nearest vertices for
\* the two coordinates, findTrackPath returns a path, taken from such a
\* polyline of minimum score and from the first registered among those of
\* that score; polylines whose two nearest vertices coincide are passed
\* over whatever their score.
C29_MinimumScore ==
  (lastOp.op = "findTrackPath" /\ lastOp.lineName \in DOMAIN lineSegments) =>
    LET segs == lineSegments[lastOp.lineName]
    IN (\E k \in 1..Len(segs) : Qualifies(segs, k, lastOp.from, lastOp.to)) =>
         /\ lastOp.result # Null
         /\ \E k \in 1..Len(segs) :
              /\ IsSelected(segs, k, lastOp.from, lastOp.to)
              /\ lastOp.result = PathOn(segs[k], NearestIndex(segs[k], lastOp.from),
                                        NearestIndex(segs[k], lastOp.to))

\* The first polyline has the lower score but coinciding nearest vertices;
\* the path comes from the second.
C29_Witness ==
  /\ lastOp.op = "findTrackPath"
  /\ lastOp.lineName \in DOMAIN lineSegments
  /\ LET segs == lineSegments[lastOp.lineName]
     IN /\ Len(segs) = 2
        /\ ~Qualifies(segs, 1, lastOp.from, lastOp.to)
        /\ Qualifies(segs, 2, lastOp.from, lastOp.to)
        /\ ScoreLess(ScoreOf(segs[1], lastOp.from, lastOp.to),
                     ScoreOf(segs[2], lastOp.from, lastOp.to))
        /\ lastOp.result = PathOn(segs[2], NearestIndex(segs[2], lastOp.from),
                                  NearestIndex(segs[2], lastOp.to))

\* Two polylines qualify with the same score and give different paths: the
\* path comes from the first.
C29_WitnessTie ==
  /\ lastOp.op = "findTrackPath"
  /\ lastOp.lineName \in DOMAIN lineSegments
  /\ LET segs == lineSegments[lastOp.lineName]
     IN /\ Len(segs) = 2
        /\ Qualifies(segs, 1, lastOp.from, lastOp.to)
        /\ Qualifies(segs, 2, lastOp.from, lastOp.to)
        /\ ~ScoreLess(ScoreOf(segs[1], lastOp.from, lastOp.to),
                      ScoreOf(segs[2], lastOp.from, lastOp.to))
        /\ ~ScoreLess(ScoreOf(segs[2], lastOp.from, lastOp.to),
                      ScoreOf(segs[1], lastOp.from, lastOp.to))
        /\ lastOp.result = PathOn(segs[1], NearestIndex(segs[1], lastOp.from),
                                  NearestIndex(segs[1], lastOp.to))
        /\ lastOp.result # PathOn(segs[2], NearestIndex(segs[2], lastOp.from),
                                  NearestIndex(segs[2], lastOp.to))

\* The ids of the trains of a batch.
BatchIds(op) == {op.trains[i].id : i \in 1..Len(op.trains)}

\* C30: in the older variant an ingestion removes a record whose id is not
\* in the batch exactly when more than 60 s have passed since the record's
\* current.timestamp; otherwise the record is retained as it is, and every
\* retained record is ticked and rendered by the following frames.
C30_GracePeriod ==
  /\ [][(IsIngest(lastOp') /\ variant = "older") =>
          \A id \in DOMAIN trainStates :
            /\ id \in BatchIds(lastOp') => id \in DOMAIN trainStates'
            /\ id \notin BatchIds(lastOp') =>
                 IF lastOp'.now - trainStates[id].current.timestamp > 60000
                 THEN id \notin DOMAIN trainStates'
                 ELSE /\ id \in DOMAIN trainStates'
                      /\ trainStates'[id] = trainStates[id]]_vars
  /\ [][(IsAnimate(lastOp') /\ variant = "older") =>
          /\ DOMAIN trainStates' = DOMAIN trainStates
          /\ RenderedIds(positions') = DOMAIN trainStates]_vars

\* An ingestion has just retained a vehicle that its batch leaves out and
\* whose current keyframe is exactly 60 s old, next to a vehicle it was
\* given.
C30_Witness ==
  /\ IsIngest(lastOp)
  /\ variant = "older"
  /\ BatchIds(lastOp) # {}
  /\ \E id \in DOMAIN trainStates :
       /\ id \notin BatchIds(lastOp)
       /\ trainStates[id].previous # Null
       /\ lastOp.now - trainStates[id].current.timestamp = 60000

\* A frame has rendered a vehicle whose current keyframe is more than 60 s
\* old.
C30_WitnessRendered ==
  /\ IsAnimate(lastOp)
  /\ variant = "older"
  /\ \E id \in DOMAIN trainStates :
       /\ id \in RenderedIds(positions)
       /\ lastOp.now - trainStates[id].current.timestamp > 60000

\* An ingestion has just removed the only record, more than 60 s after its
\* last sighting.
C30_WitnessRemoved ==
  /\ IsIngest(lastOp)
  /\ variant = "older"
  /\ lastOp.trains = <<>>
  /\ lastOp.now > 60000
  /\ trainStates = EmptyMap
  /\ positions # <<>>

\* The arrivals of the last fetch that belong to the vehicle.
ArrivalsOf(op, v) ==
  {i \in 1..Len(op.arrivals) : op.arrivals[i].vehicleId = v}

\* The trains of the last fetch that stand for the vehicle.
TrainsFor(op, v) ==
  {n \in 1..Len(op.result) : op.result[n].id = op.lineId \o "-" \o v}

VehiclesOf(op) == {op.arrivals[i].vehicleId : i \in 1..Len(op.arrivals)}

\* C31: in the trains made from one line's arrivals every vehicle appears at
\* most once, with the time to station of its closest arrival (the smallest
\* of its arrivals), and a vehicle with an arrival within 300 seconds does
\* appear.
C31_ClosestArrival ==
  lastOp.op = "fetchLineData" =>
    \A v \in VehiclesOf(lastOp) :
      /\ Cardinality(TrainsFor(lastOp, v)) <= 1
      /\ \A n \in TrainsFor(lastOp, v) :
           \A i \in ArrivalsOf(lastOp, v) :
             lastOp.result[n].timeToStation <= lastOp.arrivals[i].timeToStation
      /\ (\E i \in ArrivalsOf(lastOp, v) : lastOp.arrivals[i].timeToStation <= 300) =>
           TrainsFor(lastOp, v) # {}

\* The step is the synchronous part of a request, or the completion of one.
IsRequest(op) == op.op = "request"
IsComplete(op) == op.op = "complete"

\* The cache holds an entry younger than CACHE_TTL at time now.
Fresh(now) == cache # Null /\ now - cache.timestamp < CACHE_TTL

\* The request of the step is answered from the cache, starts no fetch and
\* leaves the cache as it is.
AnsweredFromCache ==
  /\ response'.req = requests'
  /\ response'.status = 200
  /\ response'.cached = TRUE
  /\ response'.timestamp = cache.timestamp
  /\ response'.trains = cache.data
  /\ UNCHANGED <<cache, inflight, rounds>>

\* The request of the step starts the upstream fetches and is suspended on
\* them.
StartsFetch ==
  /\ rounds' = Append(rounds, lastOp'.now)
  /\ inflight' = inflight \cup {[req |-> requests', now |-> lastOp'.now]}
  /\ UNCHANGED <<cache, response>>

\* The completion of the step stores the fetched trains with the time the
\* request started and answers with cached: false.
StoresAndAnswers ==
  /\ cache' = [data |-> response'.trains, timestamp |-> lastOp'.now]
  /\ response'.req = lastOp'.req
  /\ response'.cached = FALSE
  /\ response'.timestamp = lastOp'.now
  /\ [req |-> lastOp'.req, now |-> lastOp'.now] \in inflight
  /\ inflight' = inflight \ {[req |-> lastOp'.req, now |-> lastOp'.now]}

\* C32 as stated: every request that finds the cache younger than CACHE_TTL
\* is answered from it (cached: true, the cache's timestamp, no fetch, cache
\* untouched), and every other request fetches upstream, stores the result
\* with its own start time and answers with cached: false.
C32_CacheOrFetch ==
  /\ [][IsRequest(lastOp') /\ requests' = requests + 1 =>
          IF Fresh(lastOp'.now) THEN AnsweredFromCache ELSE StartsFetch]_vars
  /\ [][IsComplete(lastOp') /\ inflight' # inflight => StoresAndAnswers]_vars

\* The request is one the handler serves trains for: not the OPTIONS
\* preflight of the deployed handler.
ServesTrains == ~(deployment.kind = "handler" /\ lastOp'.method = "OPTIONS")

\* The deployed handler has no TFL_API_KEY in its environment.
MissingKey == deployment.kind = "handler" /\ ~deployment.apiKey

\* C32, amended: the same for every request other than the OPTIONS preflight
\* of the deployed handler, except that the deployed handler without
\* TFL_API_KEY answers a request that finds no fresh cache with status 500,
\* starting no fetch and leaving the cache untouched.
C32_CacheOrFetchServed ==
  /\ [][IsRequest(lastOp') /\ requests' = requests + 1 /\ ServesTrains =>
          IF Fresh(lastOp'.now) THEN AnsweredFromCache
          ELSE IF MissingKey
               THEN /\ response'.req = requests'
                    /\ response'.status = 500
                    /\ UNCHANGED <<cache, inflight, rounds>>
               ELSE StartsFetch]_vars
  /\ [][IsComplete(lastOp') /\ inflight' # inflight => StoresAndAnswers]_vars

\* A request has been answered from a cache that an earlier request filled,
\* and then a request that found the cache expired has refreshed it.
C32_Witness ==
  /\ IsComplete(lastOp)
  /\ Len(rounds) = 2
  /\ requests = 3
  /\ inflight = {}
  /\ cache.timestamp = rounds[2]
  /\ rounds[2] - rounds[1] >= CACHE_TTL
  /\ response.cached = FALSE

\* A request has just been answered from the cache.
C32_WitnessHit ==
  /\ IsRequest(lastOp)
  /\ response # Null
  /\ response.req = requests
  /\ response.status = 200
  /\ "cached" \in DOMAIN response
  /\ response.cached
  /\ lastOp.now > cache.timestamp

\* C33: at most one round of upstream fetches is started per CACHE_TTL
\* window, under any interleaving of requests: two rounds never start less
\* than CACHE_TTL apart, and no round starts while the round of another
\* request is still in flight.
C33_OneRoundPerWindow ==
  /\ Cardinality(inflight) <= 1
  /\ \A i \in 1..Len(rounds) : \A j \in (i + 1)..Len(rounds) :
       rounds[j] - rounds[i] >= CACHE_TTL

\* C34: the timestamp stored in the cache never decreases, under any
\* interleaving of requests: a request that started earlier never overwrites
\* the entry written by a request that started later.
C34_CacheTimestampMonotone ==
  [][(cache # Null /\ cache' # Null) => cache'.timestamp >= cache.timestamp]_vars

\* The last operation is a call of findTrackPath.
IsFind(op) == op.op \in {"findTrackPath", "findTrackPathSwapped"}

\* The path is a run of consecutive vertices of polyline P, forward or
\* reversed, between two different vertices.
IsRunOf(P, path) ==
  \E i \in 1..Len(P), j \in 1..Len(P) : i # j /\ path = PathOn(P, i, j)

\* C35: a non-null result of findTrackPath has at least two points and is a
\* run of consecutive vertices of one polyline registered under the
\* requested line, forward or reversed; no call changes the geometry index.
C35_PathFromOnePolyline ==
  /\ []((IsFind(lastOp) /\ lastOp.result # Null) =>
          /\ Len(lastOp.result) >= 2
          /\ lastOp.lineName \in DOMAIN lineSegments
          /\ \E k \in 1..Len(lineSegments[lastOp.lineName]) :
               IsRunOf(lineSegments[lastOp.lineName][k], lastOp.result))
  /\ [][IsFind(lastOp') => lineSegments' = lineSegments]_vars

\* A call has returned a reversed run of three vertices of a polyline that
\* reads differently backwards.
C35_Witness ==
  /\ IsFind(lastOp)
  /\ lastOp.result # Null
  /\ Len(lastOp.result) = 3
  /\ lastOp.result # Reverse(lastOp.result)
  /\ \E k \in 1..Len(lineSegments[lastOp.lineName]) :
       LET P == lineSegments[lastOp.lineName][k]
       IN \E i \in 1..Len(P), j \in 1..Len(P) :
            i > j /\ lastOp.result = PathOn(P, i, j) /\ Reverse(P) # P

\* C36: the trail of every record always has at least one entry: a record
\* is created with a trail of one coordinate, an ingestion leaves the trail
\* of a known record as it is, and a tick either leaves a trail as it is or
\* appends one entry, dropping entries only from the front; so the last
\* entry the tick reads always exists.
C36_TrailNeverEmpty ==
  /\ [](\A id \in DOMAIN trainStates : Len(trainStates[id].trail) >= 1)
  /\ [][/\ \A id \in DOMAIN trainStates' \ DOMAIN trainStates :
              /\ IsIngest(lastOp')
              /\ Len(trainStates'[id].trail) = 1
        /\ \A id \in DOMAIN trainStates \cap DOMAIN trainStates' :
              trainStates'[id].trail # trainStates[id].trail =>
                /\ IsAnimate(lastOp')
                /\ \E n \in 0..1 :
                     trainStates'[id].trail
                       = Append(SubSeq(trainStates[id].trail, 1 + n,
                                       Len(trainStates[id].trail)),
                                trainStates'[id].trail[Len(trainStates'[id].trail)])]_vars

\* An ingestion has just begun a transition of a record and carried over its
\* trail of several entries.
C36_Witness ==
  /\ IsIngest(lastOp)
  /\ \E id \in DOMAIN trainStates :
       /\ trainStates[id].previous # Null
       /\ trainStates[id].current.timestamp = lastOp.now
       /\ Len(trainStates[id].trail) >= 2

====
